---- MODULE Spec2Model ----
(***************************************************************************)
(* CandleStreamHub of backend/app/services/candle_stream.py.               *)
(*                                                                         *)
(* The hub runs on one asyncio event loop.  A coroutine is suspended only  *)
(* at an await that really waits: the REST fetch (get_klines), the read of *)
(* the next bar of stream_kline, asyncio.sleep, and queue.put on a full    *)
(* queue.  `async with self._lock` never waits, because no lock body       *)
(* contains an await, and queue.put on a queue that is not full returns    *)
(* without yielding.  Each action below is therefore the code that runs    *)
(* between two suspension points of one coroutine.                         *)
(*                                                                         *)
(* The payload contents (indicators, strategy overlay) are not modelled    *)
(* here: a payload is identified by its production number, and `produced`  *)
(* records its event kind and where it was built.                          *)
(***************************************************************************)
EXTENDS Integers, Sequences, FiniteSets, TLC

\* ---------------------------------------------------------------- bounds
Keys == {"BTCUSDT/1"}       \* stream keys (symbol, interval)
MaxQueues == 2              \* subscribe calls (each makes a fresh queue)
MaxSize == 2                \* asyncio.Queue(maxsize=200), scaled down
SnapshotLimit == 2          \* snapshot_limit (300 by default), scaled down
MaxTime == 3                \* candle start times are 1..MaxTime
MaxPayloads == 4            \* payloads ever produced

None == 0
QueueIds == 1..MaxQueues
TaskIds == 1..MaxQueues   \* a task is created by a subscribe call only
Times == 1..MaxTime

VARIABLES
    streams,      \* self._streams: key -> CandleStreamState
    qitems,       \* the items held by each asyncio.Queue object
    conn,         \* per queue: "new", "open" (handler running), "closed"
    tasks,        \* per task: pc, cancel request, key, cause
    produced,     \* history: every payload built, in production order
    enq,          \* history: per queue, the payloads put into it
    taken,        \* history: per queue, how many payloads the consumer took
    blockedPut,   \* history: some queue.put found its queue full
    last          \* history: the bar update merged by the last step, if any

hubVars == <<streams, qitems, conn, tasks, produced, enq, taken, blockedPut, last>>

\* The state of the statement-level view of the same coroutines (further down):
\* it follows each coroutine through `async with self._lock`, the payload
\* construction and every await.
VARIABLES
    lock,         \* self._lock: the coroutine holding it, or "free"
    cpu,          \* the coroutine the event loop is running, or "idle"
    co,           \* per coroutine: position in its code, status, locals
    hs,           \* the StreamState of the key, as far as control flow reads it
    jfile,        \* current.json: the number of updates it holds
    jdone,        \* history: read-modify-write updates of current.json completed
    lockWaited,   \* history: some `async with self._lock` found the lock held
    wakeups       \* history: resumptions delivered by the event loop

schedVars == <<lock, cpu, co, hs, jfile, jdone, lockWaited, wakeups>>

\* The state of the trade journal of the key (further down).
VARIABLES
    jcandles,     \* the window the last recompute ran on
    strat,        \* the strategy's output for that window
    index,        \* index.jsonl: the records, in file order
    current,      \* current.json: the open trades, in file order
    js,           \* the journal fields of the key's CandleStreamState
    jhist         \* history: the last journal step, and the length of
                  \*          index.jsonl when the present state was created

journalVars == <<jcandles, strat, index, current, js, jhist>>

\* The state of one write of current.json, byte by byte (further down).
VARIABLES
    disk,         \* current.json on disk: the tokens of the document
    mem,          \* the trade list the running process last saved or loaded
    wr            \* the write in progress: pc, the list being saved, tokens done

saveVars == <<disk, mem, wr>>

\* The state of one run of the strategy over a window, bar by bar (further down).
VARIABLES
    sm,           \* the locals of compute_order_block_trend_following
    sbars         \* the candles the loop has processed, the last one last

stratVars == <<sm, sbars>>

\* The state of the outcome simulator run on its own (further down).
VARIABLES
    simCandles,   \* the candles handed to compute_trade_results
    simEvents,    \* the trade events handed to it
    simSegments,  \* the stop segments handed to it
    simResults    \* what the last call returned, and whether it was called

simVars == <<simCandles, simEvents, simSegments, simResults>>

\* The state of the payload builders (further down).
VARIABLES
    settingsMode, \* settings.mode, read from the environment at startup
    keyMarkers,   \* state.strategy_markers of the key
    keyCandles,   \* whether state.candles is non-empty
    outPayload,   \* the last payload built, with what building it did
    applied       \* how many calls of _apply_trade_logging passed its mode test

payVars == <<settingsMode, keyMarkers, keyCandles, outPayload, applied>>

\* The state of one stream task's updates with the journal attached (further
\* down): where the task is, and what its last update did.
VARIABLES upd, volv, obv, srv

\* The variables of the last views.
lateVars == <<upd, volv, obv, srv>>
lateButUpd == <<volv, obv, srv>>
lateButVol == <<upd, obv, srv>>
lateButBlocks == <<upd, volv, srv>>
lateButLines == <<upd, volv, obv>>

tailVars == <<simVars, payVars, lateVars>>

\* The variables of the views added after the journal.
moreVars == <<saveVars, stratVars, tailVars>>

\* The variables of the other views, which the hub's actions leave alone.
extVars == <<schedVars, journalVars, moreVars>>

vars == <<hubVars, extVars>>

\* ------------------------------------------------------------ data model
\* Candle (schemas/market.py): the start time and one field standing for OHLCV.
Candle(t, v) == [time |-> t, v |-> v]
NoCandle == [time |-> 0, v |-> 0]

\* _candle_from_bar: the candidate built from a BarUpdate.
candle_from_bar(start, v) == Candle(start, v)

IsStrictlyIncreasing(cs) ==
    \A i \in 1..(Len(cs) - 1) : cs[i].time < cs[i + 1].time

\* get_klines: at most `limit` candles, oldest first; possibly none.
get_klines(limit) ==
    { cs \in UNION { [1..n -> {Candle(t, 0) : t \in Times}] : n \in 0..limit } :
        IsStrictlyIncreasing(cs) }

\* stream_kline: the bar updates the upstream may push.
stream_kline == { candle_from_bar(t, 1) : t \in Times }

\* CandleStreamState(): the defaultdict factory.
CandleStreamState == [queues |-> {}, candles |-> <<>>, task |-> None]

NewTask == [pc |-> "unborn", cancel |-> FALSE, key |-> "", cause |-> 0]

\* self._streams.get(stream_key) is None
StateIsNone(key) == key \notin DOMAIN streams

\* self._streams[stream_key] = state (creating the entry when missing)
StoreState(key, state) ==
    [k \in (DOMAIN streams) \cup {key} |-> IF k = key THEN state ELSE streams[k]]

\* self._streams.pop(stream_key, None)
PopState(key) == [k \in (DOMAIN streams) \ {key} |-> streams[k]]

Max(a, b) == IF a > b THEN a ELSE b
Min(a, b) == IF a < b THEN a ELSE b

\* ------------------------------------------------------------- the queue
\* queue.full() then queue.get_nowait(): drop the oldest item of a full queue.
DropNewest(items) ==
    IF Len(items) >= MaxSize THEN SubSeq(items, 1, Len(items) - 1) ELSE items
DropNothing(items) == items
DropOldest(items) == IF Len(items) >= MaxSize THEN Tail(items) ELSE items

\* await queue.put(payload): enqueues unless the queue is full (the put waits).
PutBlocks(items) == Len(items) >= MaxSize
QueuePut(items, pid) == IF PutBlocks(items) THEN items ELSE Append(items, pid)

\* _broadcast, per queue: make room if full, then put.
BroadcastItems(items, pid) == QueuePut(DropOldest(items), pid)
BroadcastBlocks(items) == PutBlocks(DropOldest(items))

\* subscribe's delivery of the stashed snapshot: a plain put.
SubscribePutItems(items, pid) == QueuePut(items, pid)

\* _make_snapshot_payload / _make_upsert_payload: the record kept of a payload.
Payload(event, src, cause, reg) ==
    [event |-> event, src |-> src, cause |-> cause, reg |-> reg]

NextPid == Len(produced) + 1

\* ------------------------------------------- coroutines, statement by statement
\* The coroutines of the statement-level view: two websocket handlers
\* (api/market.py stream_candles: subscribe, wait, unsubscribe) and the stream
\* tasks that subscribe may create.
Handlers == {"h1", "h2"}
StreamTasks == {"t1", "t2"}
Cos == Handlers \cup StreamTasks

\* A coroutine that has not been created: no position, no locals.
NewCo == [pc |-> 0, st |-> "new", cancel |-> FALSE, payload |-> FALSE,
          resync |-> FALSE, jlocal |-> 0, jopen |-> FALSE]

\* self._streams without the key: no queues, no window, no task.
NoStream == [exists |-> FALSE, queues |-> {}, candles |-> FALSE, task |-> "none"]

\* The statement-level view before any handler has started.
SchedIdle ==
    /\ lock = "free"
    /\ cpu = "idle"
    /\ co = [c \in Cos |-> NewCo]
    /\ hs = NoStream
    /\ jfile = 0
    /\ jdone = 0
    /\ lockWaited = FALSE
    /\ wakeups = 0


\* ======================================================== the trade journal
\* _apply_trade_logging (candle_stream.py) and services/trade_log.py, in
\* trading mode, for one key.  A recompute is one call of
\* _apply_trade_logging: it is synchronous, so it is one step.  The strategy
\* (compute_order_block_trend_following) is an input here: for every window
\* it returns some list of trade events, each with its stop segments, and
\* returns the same list whenever it is run on the same window.
MaxBars == 3                \* bars the upstream ever delivers (start times 1..MaxBars s)
JournalLimit == 2           \* snapshot_limit of the journal view
MaxTrades == 2              \* trade events in one strategy output
MaxRecords == 6             \* no recompute starts once index.jsonl is this long
MaxWrites == 3              \* a write failure strikes after at most this many writes

MsPerSec == 10              \* Candle.time is in ms (1000 per second), scaled down
MsThreshold == 10           \* `t >= 1e12` of _to_seconds, scaled alike
LowPrices == {1, 3}         \* the lows a bar may have
HighPrice == 3              \* the high of every bar
InitialStop == 1            \* initial_stop_price of every entry
TrailedStop == 2            \* the stop after it was trailed
NoFailure == 0 - 1          \* write budget of a recompute that meets no failure

\* Candle with the fields the journal reads.
OhlcCandle(sec, low) == [time |-> sec * MsPerSec, low |-> low, high |-> HighPrice]

\* TradeEvent and StopSegment of trading_strategy/types.py (target_price 0: None).
TradeEvent(time, bar_index, type, side, initial_stop_price) ==
    [time |-> time, bar_index |-> bar_index, type |-> type, side |-> side,
     initial_stop_price |-> initial_stop_price, target_price |-> 0]
StopSegment(start_time, end_time, price, side) ==
    [start_time |-> start_time, end_time |-> end_time, price |-> price, side |-> side]

\* `c.time // 1000`
TimeSec(c) == c.time \div MsPerSec

\* _to_seconds
to_seconds(t) == IF t >= MsThreshold THEN t \div MsPerSec ELSE t

\* str(ev.time): the decimal numeral of the time, which is the time itself as
\* far as equality of trade ids goes.
TradeId(time) == time

\* ------------------------------------------------------ the strategy's output
\* The stop segments the strategy emits for an entry at bar `i` (1-based): one
\* segment from the entry to the last bar, or the same trailed once at the
\* bar after the entry.
PathKinds == {"flat", "trail"}
SegmentsOf(cs, i, kind) ==
    LET t == TimeSec(cs[i])
        lastT == TimeSec(cs[Len(cs)])
    IN IF kind = "trail" /\ i < Len(cs)
       THEN << StopSegment(t, TimeSec(cs[i + 1]), InitialStop, "long"),
               StopSegment(TimeSec(cs[i + 1]), lastT, TrailedStop, "long") >>
       ELSE << StopSegment(t, lastT, InitialStop, "long") >>

RECURSIVE EventsFrom(_, _, _)
EventsFrom(cs, entries, i) ==
    IF i > Len(cs) THEN << >>
    ELSE IF i \in entries
         THEN << TradeEvent(TimeSec(cs[i]), i - 1, "OB_TREND_BUY", "long", InitialStop) >>
              \o EventsFrom(cs, entries, i + 1)
         ELSE EventsFrom(cs, entries, i + 1)

RECURSIVE SegmentsFrom(_, _, _, _)
SegmentsFrom(cs, entries, paths, i) ==
    IF i > Len(cs) THEN << >>
    ELSE IF i \in entries
         THEN SegmentsOf(cs, i, paths[i]) \o SegmentsFrom(cs, entries, paths, i + 1)
         ELSE SegmentsFrom(cs, entries, paths, i + 1)

StrategyOutput(events, segments) == [events |-> events, segments |-> segments]
NoOutput == StrategyOutput(<< >>, << >>)

\* compute_order_block_trend_following(candles, ...): what it may return.
StrategyOutputs(cs) ==
    { StrategyOutput(EventsFrom(cs, entries, 1), SegmentsFrom(cs, entries, paths, 1)) :
        entries \in { S \in SUBSET (1..Len(cs)) : Cardinality(S) <= MaxTrades },
        paths \in [1..Len(cs) -> PathKinds] }

\* ------------------------------------------------------ the outcome simulator
First(S) == CHOOSE i \in S : \A j \in S : i <= j

\* _get_stop_price_for_bar
get_stop_price_for_bar(bar_time_sec, side, initial_stop, segments) ==
    LET relevant == SelectSeq(segments, LAMBDA s : s.side = side)
        n == Len(relevant)
        covering == { k \in 1..n : bar_time_sec >= relevant[k].start_time
                                   /\ bar_time_sec <= relevant[k].end_time }
        ended == { k \in 1..n : relevant[k].end_time < bar_time_sec }
        latest == { k \in ended : \A j \in ended :
                                     relevant[j].end_time <= relevant[k].end_time }
    IN IF n = 0 THEN initial_stop
       ELSE IF covering # {} THEN relevant[First(covering)].price
       ELSE IF \A k \in 1..n : relevant[k].start_time > bar_time_sec THEN initial_stop
       ELSE IF ended # {} THEN relevant[First(latest)].price
       ELSE initial_stop

\* The loop with the target tested before the stop.
RECURSIVE CloseReasonTargetFirst(_, _, _, _)
CloseReasonTargetFirst(ev, candles, segments, i) ==
    IF i > Len(candles) THEN "end_of_data"
    ELSE LET bar == candles[i]
             stop_price == get_stop_price_for_bar(to_seconds(bar.time), ev.side,
                                                  ev.initial_stop_price, segments)
             stop_hit == IF ev.side = "long" THEN bar.low <= stop_price
                         ELSE bar.high >= stop_price
             tp_hit == ev.target_price # 0 /\
                       (IF ev.side = "long" THEN bar.high >= ev.target_price
                        ELSE bar.low <= ev.target_price)
         IN IF tp_hit THEN "take_profit"
            ELSE IF stop_hit THEN "stop"
            ELSE CloseReasonTargetFirst(ev, candles, segments, i + 1)

\* the `for i in range(entry_bar_index + 1, len(candles))` loop: the close
\* reason found from bar `i` (1-based) on
RECURSIVE CloseReasonFrom(_, _, _, _)
CloseReasonFrom(ev, candles, segments, i) ==
    IF i > Len(candles) THEN "end_of_data"
    ELSE LET bar == candles[i]
             stop_price == get_stop_price_for_bar(to_seconds(bar.time), ev.side,
                                                  ev.initial_stop_price, segments)
             stop_hit == IF ev.side = "long" THEN bar.low <= stop_price
                         ELSE bar.high >= stop_price
             tp_hit == ev.target_price # 0 /\
                       (IF ev.side = "long" THEN bar.high >= ev.target_price
                        ELSE bar.low <= ev.target_price)
         IN IF stop_hit THEN "stop"
            ELSE IF tp_hit THEN "take_profit"
            ELSE CloseReasonFrom(ev, candles, segments, i + 1)

TradeResult(tradeId, closeReason) == [tradeId |-> tradeId, closeReason |-> closeReason]

\* compute_trade_results: one result per event with a valid side and bar index
RECURSIVE compute_trade_results(_, _, _, _)
compute_trade_results(events, candles, segments, k) ==
    IF k > Len(events) THEN << >>
    ELSE LET ev == events[k]
             rest == compute_trade_results(events, candles, segments, k + 1)
         IN IF ev.side \notin {"long", "short"} THEN rest
            ELSE IF ev.bar_index < 0 \/ ev.bar_index >= Len(candles) THEN rest
            ELSE << TradeResult(TradeId(ev.time),
                                CloseReasonFrom(ev, candles, segments, ev.bar_index + 2)) >>
                 \o rest

\* ------------------------------------------------------------ the files
\* A record of index.jsonl and a trade of current.json.
IndexRecord(type, tradeId, price) == [type |-> type, tradeId |-> tradeId, price |-> price]
CurrentTrade(tradeId, entryTime, stop, side) ==
    [tradeId |-> tradeId, entryTime |-> entryTime, currentStopPrice |-> stop, side |-> side]

\* The journal fields of CandleStreamState().
NoStops == [x \in {} |-> 0]
FreshJournalState ==
    [logged_entry_ids |-> {}, logged_exit_ids |-> {},
     last_stop_price_per_trade |-> NoStops,
     current_trades_restored |-> FALSE, restored_trades |-> << >>]

\* `d[k] = v` on a dict
DictSet(d, k, v) == [x \in (DOMAIN d) \cup {k} |-> IF x = k THEN v ELSE d[x]]

\* A recompute in progress: the two files, the state, the writes that will
\* still succeed (NoFailure: all of them) and whether an exception is
\* propagating.
Machine(idx, cur, st, budget) ==
    [index |-> idx, current |-> cur, st |-> st, budget |-> budget, raised |-> FALSE]

\* One write to the file system: it raises when the budget is used up.
Spend(m) ==
    IF m.raised THEN m
    ELSE IF m.budget = 0 THEN [m EXCEPT !.raised = TRUE]
    ELSE IF m.budget > 0 THEN [m EXCEPT !.budget = @ - 1]
    ELSE m

\* `with index_path.open("a") as f: f.write(...)`
AppendIndex(m, rec) ==
    LET m1 == Spend(m)
    IN IF m1.raised THEN m1 ELSE [m1 EXCEPT !.index = Append(@, rec)]

\* load_current_trades / save_current_trades
load_current_trades(m) == m.current
save_current_trades(m, trades) ==
    LET m1 == Spend(m)
    IN IF m1.raised THEN m1 ELSE [m1 EXCEPT !.current = trades]

add_current_trade(m, ev) ==
    save_current_trades(m, Append(load_current_trades(m),
        CurrentTrade(TradeId(ev.time), ev.time, ev.initial_stop_price, ev.side)))

\* only the first trade with the id is updated; no trade, no write
update_current_trade_stop(m, trade_id, price) ==
    LET trades == load_current_trades(m)
        hits == { i \in 1..Len(trades) : trades[i].tradeId = trade_id }
    IN IF hits = {} THEN m
       ELSE save_current_trades(m, [trades EXCEPT ![First(hits)].currentStopPrice = price])

remove_current_trade(m, trade_id) ==
    LET trades == load_current_trades(m)
        new_trades == SelectSeq(trades, LAMBDA t : t.tradeId # trade_id)
    IN IF Len(new_trades) # Len(trades) THEN save_current_trades(m, new_trades) ELSE m

\* append_entry: the snapshot file, the index record, current.json
append_entry_current_only(m, ev) ==
    LET m1 == Spend(m)
    IN IF m1.raised THEN m1 ELSE add_current_trade(m1, ev)
append_entry(m, ev) ==
    LET m1 == Spend(m)
        m2 == AppendIndex(m1, IndexRecord("entry", TradeId(ev.time), ev.initial_stop_price))
    IN IF m2.raised THEN m2 ELSE add_current_trade(m2, ev)

append_stop_move(m, trade_id, price) ==
    LET m1 == AppendIndex(m, IndexRecord("stop_move", trade_id, price))
    IN IF m1.raised THEN m1 ELSE update_current_trade_stop(m1, trade_id, price)

append_exit(m, trade_id) ==
    LET m1 == AppendIndex(m, IndexRecord("exit", trade_id, 0))
    IN IF m1.raised THEN m1 ELSE remove_current_trade(m1, trade_id)

\* ------------------------------------------------------ _apply_trade_logging
\* the loop of _restore_current_trades: a later trade of the same id wins
RECURSIVE RestoreFrom(_, _, _)
RestoreFrom(st, trades, i) ==
    IF i > Len(trades) THEN st
    ELSE LET tid == trades[i].tradeId
         IN RestoreFrom([st EXCEPT
                !.logged_entry_ids = @ \cup {tid},
                !.last_stop_price_per_trade = DictSet(@, tid, trades[i].currentStopPrice)],
              trades, i + 1)

\* a restore that reads nothing from current.json
restore_nothing(m) ==
    [m EXCEPT !.st.current_trades_restored = TRUE]

restore_current_trades(m) ==
    IF m.st.current_trades_restored THEN m
    ELSE LET trades == load_current_trades(m)
             st == RestoreFrom(m.st, trades, 1)
         IN [m EXCEPT !.st = [st EXCEPT !.restored_trades = trades,
                                        !.current_trades_restored = TRUE]]

\* "Log new entries"
RECURSIVE LogEntries(_, _, _)
LogEntries(m, trade_events, i) ==
    IF m.raised \/ i > Len(trade_events) THEN m
    ELSE LET ev == trade_events[i]
             trade_id == TradeId(ev.time)
         IN IF trade_id \in m.st.logged_entry_ids
            THEN LogEntries(m, trade_events, i + 1)
            ELSE LET m1 == append_entry(m, ev)
                 IN IF m1.raised THEN m1
                    ELSE LogEntries([m1 EXCEPT
                            !.st.logged_entry_ids = @ \cup {trade_id},
                            !.st.last_stop_price_per_trade =
                                DictSet(@, trade_id, ev.initial_stop_price)],
                          trade_events, i + 1)

\* events_by_side[side]: (time, id) of the strategy's events and of the
\* restored trades of that side
EventsBySide(st, trade_events, side) ==
    { <<trade_events[i].time, TradeId(trade_events[i].time)>> :
        i \in { j \in 1..Len(trade_events) : trade_events[j].side = side } }
    \cup
    { <<st.restored_trades[i].entryTime, st.restored_trades[i].tradeId>> :
        i \in { j \in 1..Len(st.restored_trades) : st.restored_trades[j].side = side } }

\* the stop-move loop over the segments
RECURSIVE LogStopMoves(_, _, _, _)
LogStopMoves(m, trade_events, stop_segments, i) ==
    IF m.raised \/ i > Len(stop_segments) THEN m
    ELSE LET seg == stop_segments[i]
             candidates == { p \in EventsBySide(m.st, trade_events, seg.side) :
                               p[1] <= seg.start_time }
             skip == LogStopMoves(m, trade_events, stop_segments, i + 1)
         IN IF seg.side \notin {"long", "short"} \/ candidates = {} THEN skip
            ELSE LET best == CHOOSE p \in candidates : \A q \in candidates : q[1] <= p[1]
                     trade_id == best[2]
                 IN IF trade_id \notin m.st.logged_entry_ids THEN skip
                    ELSE IF trade_id \in DOMAIN m.st.last_stop_price_per_trade
                            /\ seg.price # m.st.last_stop_price_per_trade[trade_id]
                         THEN LET m1 == append_stop_move(m, trade_id, seg.price)
                              IN IF m1.raised THEN m1
                                 ELSE LogStopMoves([m1 EXCEPT
                                         !.st.last_stop_price_per_trade =
                                             DictSet(@, trade_id, seg.price)],
                                       trade_events, stop_segments, i + 1)
                         ELSE skip

\* The restored trades that get a synthetic event: not in the strategy's
\* output, not exited, and not entered after the last candle.
NeedsSyntheticEvent(st, trade_events, candles, t) ==
    /\ \A i \in 1..Len(trade_events) : TradeId(trade_events[i].time) # t.tradeId
    /\ t.tradeId \notin st.logged_exit_ids
    /\ ~(/\ candles # << >>
          /\ \A i \in 1..Len(candles) : TimeSec(candles[i]) < t.entryTime)

\* bar_index of a restored trade: the first candle not before its entry
RestoredBarIndex(candles, entry_time) ==
    LET later == { i \in 1..Len(candles) : TimeSec(candles[i]) >= entry_time }
    IN IF later = {} THEN 0 ELSE First(later) - 1

\* `candles[-1].time // 1000 if candles else 0`
LastCandleTimeSec(candles) ==
    IF candles = << >> THEN 0 ELSE TimeSec(candles[Len(candles)])

SyntheticEvents(st, trade_events, candles) ==
    LET kept == SelectSeq(st.restored_trades,
                    LAMBDA t : NeedsSyntheticEvent(st, trade_events, candles, t))
    IN [i \in 1..Len(kept) |->
           TradeEvent(kept[i].entryTime, RestoredBarIndex(candles, kept[i].entryTime),
                      "RESTORED", kept[i].side, kept[i].currentStopPrice)]

SyntheticSegments(st, trade_events, candles) ==
    LET kept == SelectSeq(st.restored_trades,
                    LAMBDA t : NeedsSyntheticEvent(st, trade_events, candles, t))
    IN [i \in 1..Len(kept) |->
           StopSegment(kept[i].entryTime, LastCandleTimeSec(candles),
                       kept[i].currentStopPrice, kept[i].side)]

\* the loop over the simulator's results
RECURSIVE LogExits(_, _, _)
LogExits(m, results, i) ==
    IF m.raised \/ i > Len(results) THEN m
    ELSE LET r == results[i]
         IN IF r.tradeId \in m.st.logged_exit_ids \/ r.closeReason = "end_of_data"
            THEN LogExits(m, results, i + 1)
            ELSE LET m1 == append_exit(m, r.tradeId)
                 IN IF m1.raised THEN m1
                    ELSE LogExits([m1 EXCEPT !.st.logged_exit_ids = @ \cup {r.tradeId}],
                                  results, i + 1)

\* _apply_trade_logging(trade_events, stop_segments, candles, state)
apply_trade_logging(m, out, candles) ==
    LET m1 == restore_current_trades(m)
        m2 == LogEntries(m1, out.events, 1)
        m3 == LogStopMoves(m2, out.events, out.segments, 1)
        all_events == out.events \o SyntheticEvents(m3.st, out.events, candles)
        all_segments == out.segments \o SyntheticSegments(m3.st, out.events, candles)
        results == compute_trade_results(all_events, candles, all_segments, 1)
    IN LogExits(m3, results, 1)

\* The journal before the first recompute: no files, a fresh state.
JournalIdle ==
    /\ jcandles = << >>
    /\ strat = NoOutput
    /\ index = << >>
    /\ current = << >>
    /\ js = FreshJournalState
    /\ jhist = [op |-> "init", epoch |-> 0]

\* ------------------------------------------------------------------ Init
\* ------------------------------------------------- one write of current.json
\* json.dumps({"trades": trades}, indent=2) as the tokens the file receives:
\* the opening of the document, one token per trade, the closing.
Token(kind, trade) == [kind |-> kind, trade |-> trade]
NoTrade == CurrentTrade(0, 0, 0, "")
Serialize(trades) ==
    <<Token("{", NoTrade)>>
    \o [i \in 1..Len(trades) |-> Token("trade", trades[i])]
    \o <<Token("}", NoTrade)>>

\* json.loads of the file's text: a document that is not closed (or empty)
\* raises JSONDecodeError.
IsDocument(doc) == Len(doc) >= 2 /\ doc[1].kind = "{" /\ doc[Len(doc)].kind = "}"
Deserialize(doc) == [i \in 1..(Len(doc) - 2) |-> doc[i + 1].trade]

NoFile == [exists |-> FALSE, doc |-> << >>]

\* load_current_trades on the file as it is on disk
LoadFromDisk(file) ==
    IF ~file.exists THEN << >>
    ELSE IF IsDocument(file.doc) THEN Deserialize(file.doc)
    ELSE << >>

NoWrite == [pc |-> "idle", trades |-> << >>, done |-> 0]

SaveIdle ==
    /\ disk = NoFile
    /\ mem = << >>
    /\ wr = NoWrite

\* ------------------------------------------------- the strategy's locals
\* _PendingSignal, _ActivePosition (first_segment is history: the index in
\* stop_segments of the segment the entry appended) and no previous candle.
NoPending == [set |-> FALSE, bar_index |-> 0, ob_top |-> 0, ob_bottom |-> 0]
PendingSignal(bar_index, ob_top, ob_bottom) ==
    [set |-> TRUE, bar_index |-> bar_index, ob_top |-> ob_top, ob_bottom |-> ob_bottom]
NoPosition == [open |-> FALSE, side |-> "", stop_price |-> 0, entry_bar |-> 0, first_segment |-> 0]
ActivePosition(side, entry_bar, stop_price, first_segment) ==
    [open |-> TRUE, side |-> side, stop_price |-> stop_price, entry_bar |-> entry_bar,
     first_segment |-> first_segment]
NoPrevCandle == [time |-> 0, low |-> 0, high |-> 0, close |-> 0]

StrategyIdle ==
    /\ sm = [pending_long |-> NoPending, pending_short |-> NoPending,
             position |-> NoPosition, events |-> << >>, stop_segments |-> << >>,
             prev_candle |-> NoPrevCandle, skip |-> FALSE]
    /\ sbars = << >>

\* No call of compute_trade_results yet, and nothing to hand to it.
NoResults == [called |-> FALSE, results |-> << >>]
SimIdle ==
    /\ simCandles = << >>
    /\ simEvents = << >>
    /\ simSegments = << >>
    /\ simResults = NoResults

\* No payload built yet.  CandleStreamState.strategy_markers defaults to "off",
\* the window is empty, and the environment has not been read.
NoPayload == [built |-> FALSE, event |-> "", markers |-> "", keys |-> {},
              ran |-> FALSE, journaled |-> FALSE]
PayloadIdle ==
    /\ settingsMode = "unread"
    /\ keyMarkers = "off"
    /\ keyCandles = FALSE
    /\ outPayload = NoPayload
    /\ applied = 0

\* The stream task is about to fetch its first window; nothing was built.
LinesIdle == srv = [profile |-> << >>, called |-> FALSE, minima_indices |-> << >>, lines |-> << >>]

BlocksIdle ==
    obv = [i |-> 0, bullish_ob |-> << >>, bearish_ob |-> << >>,
           c |-> [open |-> 0, high |-> 0, low |-> 0, close |-> 0],
           events_this_bar |-> << >>, created |-> << >>]

VolumeIdle == volv = [volumes |-> << >>, up_to |-> 0, vol_avg |-> <<0, 1>>, called |-> FALSE]

UpdateIdle ==
    upd = [pc |-> "rest", subscribed |-> TRUE, broadcast |-> FALSE, raised |-> FALSE,
           retried |-> FALSE]

Init ==
    /\ LinesIdle
    /\ BlocksIdle
    /\ VolumeIdle
    /\ UpdateIdle
    /\ SchedIdle
    /\ JournalIdle
    /\ SaveIdle
    /\ StrategyIdle
    /\ SimIdle
    /\ PayloadIdle
    /\ streams = << >>
    /\ qitems = [q \in QueueIds |-> << >>]
    /\ conn = [q \in QueueIds |-> "new"]
    /\ tasks = [t \in TaskIds |-> NewTask]
    /\ produced = << >>
    /\ enq = [q \in QueueIds |-> << >>]
    /\ taken = [q \in QueueIds |-> 0]
    /\ blockedPut = FALSE
    /\ last = [op |-> "other", t |-> 0, cand |-> NoCandle]

\* What `last` records: a step of the `async for` body with its task and
\* candidate, or any other step.
BarStep(t, cand) == [op |-> "bar", t |-> t, cand |-> cand]
OtherStep == [op |-> "other", t |-> 0, cand |-> NoCandle]

\* The lowest unused queue / task identity (a fresh object).
FreshQueue(q) == conn[q] = "new" /\ \A p \in QueueIds : p < q => conn[p] # "new"
FreshTask(t) ==
    tasks[t].pc = "unborn" /\ \A u \in TaskIds : u < t => tasks[u].pc # "unborn"

\* The queues whose websocket handler is between subscribe and unsubscribe
\* (api/market.py stream_candles); recorded in each payload when it is built.
Subscribers == { q \in QueueIds : conn[q] = "open" }

\* `queues = list(state.queues)`: the queues a broadcast delivers to
OneQueueOf(state) ==
    IF state.queues = {} THEN {}
    ELSE {CHOOSE q \in state.queues : \A p \in state.queues : q <= p}
BroadcastTargets(state) == state.queues

\* --------------------------------------------------------------- fan-out
\* _broadcast: every queue of the state gets the payload, a full queue
\* losing its oldest item first.  Queues outside `targets` are untouched.
Emit(event, src, cause, targets) ==
    /\ produced' = Append(produced, Payload(event, src, cause, Subscribers))
    /\ qitems' = [q \in QueueIds |->
                    IF q \in targets THEN BroadcastItems(qitems[q], NextPid)
                    ELSE qitems[q]]
    /\ enq' = [q \in QueueIds |->
                 IF q \in targets /\ ~BroadcastBlocks(qitems[q])
                 THEN Append(enq[q], NextPid) ELSE enq[q]]
    /\ blockedPut' = (blockedPut \/ \E q \in targets : BroadcastBlocks(qitems[q]))

NoEmit == UNCHANGED <<produced, qitems, enq, blockedPut>>

\* ------------------------------------------------------------- subscribe
\* `state.task is None or state.task.done()`
NeedsTaskAlways(state) == TRUE
NeedsTask(state) == state.task = None \/ tasks[state.task].pc = "done"

\* `if state.candles:` a snapshot of the cached window is stashed
HasCachedSnapshot(state) == state.candles # << >>

Subscribe(key) ==
    \E q \in QueueIds :
      /\ FreshQueue(q)
      /\ LET state0 == IF StateIsNone(key) THEN CandleStreamState ELSE streams[key]
             state1 == [state0 EXCEPT !.queues = @ \cup {q}]
             cached == HasCachedSnapshot(state1)
             spawn  == NeedsTask(state1)
             t      == CHOOSE u \in TaskIds : FreshTask(u)
         IN /\ cached => Len(produced) < MaxPayloads
            /\ spawn => \E u \in TaskIds : FreshTask(u)
            /\ streams' = StoreState(key, IF spawn THEN [state1 EXCEPT !.task = t]
                                                    ELSE state1)
            /\ tasks' = IF spawn
                        THEN [tasks EXCEPT ![t] = [NewTask EXCEPT !.pc = "rest",
                                                                  !.key = key]]
                        ELSE tasks
            /\ IF cached
               THEN /\ produced' = Append(produced,
                                          Payload("snapshot", "subscribe", 0,
                                                  Subscribers \cup {q}))
                    /\ qitems' = [qitems EXCEPT ![q] = SubscribePutItems(@, NextPid)]
                    /\ enq' = IF PutBlocks(qitems[q]) THEN enq
                              ELSE [enq EXCEPT ![q] = Append(@, NextPid)]
                    /\ blockedPut' = (blockedPut \/ PutBlocks(qitems[q]))
               ELSE NoEmit
            /\ conn' = [conn EXCEPT ![q] = "open"]
            /\ taken' = taken
            /\ last' = OtherStep
            /\ UNCHANGED extVars

\* ----------------------------------------------------------- unsubscribe
\* `if state.queues: return` -- the entry stays while a queue is registered
KeepsStateAlways(state) == TRUE
KeepsState(state) == state.queues # {}

\* task.cancel(): a request, delivered at the task's next resumption
CancelTask(t) ==
    IF t # None /\ tasks[t].pc # "done"
    THEN [tasks EXCEPT ![t].cancel = TRUE] ELSE tasks

Unsubscribe(key, q) ==
    /\ conn[q] # "new"
    /\ conn' = [conn EXCEPT ![q] = "closed"]
    /\ IF StateIsNone(key)
       THEN UNCHANGED <<streams, tasks>>
       ELSE LET state == [streams[key] EXCEPT !.queues = @ \ {q}]
            IN IF KeepsState(state)
               THEN streams' = StoreState(key, state) /\ UNCHANGED tasks
               ELSE /\ tasks' = CancelTask(state.task)
                    /\ streams' = PopState(key)
    /\ NoEmit
    /\ taken' = taken
    /\ last' = OtherStep
    /\ UNCHANGED extVars

\* The websocket handler of api/market.py: queue.get() while connected.
ConsumerGet(q) ==
    /\ conn[q] = "open"
    /\ qitems[q] # << >>
    /\ qitems' = [qitems EXCEPT ![q] = Tail(@)]
    /\ taken' = [taken EXCEPT ![q] = @ + 1]
    /\ UNCHANGED <<streams, conn, tasks, produced, enq, blockedPut>>
    /\ last' = OtherStep
    /\ UNCHANGED extVars

\* ------------------------------------------------------- the stream task
\* The merge of a bar update into the window (the body of the lock in the
\* `async for` loop).  Result: the new window, whether an upsert payload
\* was built (event_payload is not None) and do_resync.
MergeResult(cs, upsert, do_resync) ==
    [candles |-> cs, upsert |-> upsert, do_resync |-> do_resync]

\* state.candles[-snapshot_limit:] when the window grew past the limit
Truncate(cs, limit) ==
    IF Len(cs) > limit THEN SubSeq(cs, Len(cs) - limit + 1, Len(cs)) ELSE cs

\* `candidate.time > last.time`
IsRolloverOrSame(candidate, lastc) == candidate.time >= lastc.time
IsRollover(candidate, lastc) == candidate.time > lastc.time

\* `candidate.time == last.time`
IsSameBar(candidate, lastc) == candidate.time = lastc.time

\* the `for idx, candle in enumerate(state.candles)` loop of the stale branch:
\* the first candle of equal time is replaced; no match leaves no payload
MergeStaleOverwrites(cs, candidate) ==
    LET idxs == { i \in 1..Len(cs) : cs[i].time = candidate.time }
        idx == IF idxs = {} THEN 1 ELSE CHOOSE i \in idxs : \A j \in idxs : i <= j
    IN MergeResult([cs EXCEPT ![idx] = candidate], TRUE, FALSE)
MergeStale(cs, candidate) ==
    LET idxs == { i \in 1..Len(cs) : cs[i].time = candidate.time }
    IN IF idxs = {}
       THEN MergeResult(cs, FALSE, FALSE)
       ELSE LET idx == CHOOSE i \in idxs : \A j \in idxs : i <= j
            IN MergeResult([cs EXCEPT ![idx] = candidate], TRUE, FALSE)

MergeBar(cs, candidate, limit) ==
    IF cs = << >>
    THEN MergeResult(<<candidate>>, TRUE, FALSE)
    ELSE LET lastc == cs[Len(cs)]
         IN IF IsRollover(candidate, lastc)
            THEN MergeResult(Truncate(Append(cs, candidate), limit), TRUE, TRUE)
            ELSE IF IsSameBar(candidate, lastc)
                 THEN MergeResult([cs EXCEPT ![Len(cs)] = candidate], TRUE, FALSE)
                 ELSE MergeStale(cs, candidate)

\* `if event_payload is not None: await self._broadcast(...)`
BroadcastsUpsertUnlessResync(m) == m.upsert /\ ~m.do_resync
BroadcastsUpsert(m) == m.upsert

\* `if do_resync: await self._resync_and_broadcast(...)`
ResyncsOnUpsert(m) == m.upsert
Resyncs(m) == m.do_resync

\* A task takes a step of its body only while no cancellation is pending:
\* task.cancel() makes its await raise CancelledError when it is resumed.
RunningDespiteCancel(t) == tasks[t].pc \notin {"unborn", "done"}
Running(t) == tasks[t].pc \notin {"unborn", "done"} /\ ~tasks[t].cancel

\* get_klines returned: store the window, build and broadcast the snapshot,
\* then open the bar stream.
TaskRestResult(t, cs) ==
    /\ Running(t) /\ tasks[t].pc = "rest"
    /\ Len(produced) < MaxPayloads
    /\ LET key == tasks[t].key
       IN IF StateIsNone(key)
          THEN /\ tasks' = [tasks EXCEPT ![t].pc = "done"]
               /\ UNCHANGED streams
               /\ NoEmit
          ELSE /\ streams' = [streams EXCEPT ![key].candles = cs]
               /\ Emit("snapshot", "rest", 0, BroadcastTargets(streams[key]))
               /\ tasks' = [tasks EXCEPT ![t].pc = "ws"]
    /\ UNCHANGED <<conn, taken>>
    /\ last' = OtherStep
    /\ UNCHANGED extVars

\* One BarUpdate of `async for bar in stream_kline(...)`.
TaskBar(t, bar) ==
    /\ Running(t) /\ tasks[t].pc = "ws"
    /\ Len(produced) < MaxPayloads
    /\ LET key == tasks[t].key
           candidate == bar
       IN IF StateIsNone(key)
          THEN /\ tasks' = [tasks EXCEPT ![t].pc = "done"]
               /\ UNCHANGED streams
               /\ NoEmit
          ELSE LET m == MergeBar(streams[key].candles, candidate, SnapshotLimit)
               IN /\ streams' = [streams EXCEPT ![key].candles = m.candles]
                  /\ IF BroadcastsUpsert(m)
                     THEN Emit("upsert", "bar", 0, BroadcastTargets(streams[key]))
                     ELSE NoEmit
                  /\ tasks' = [tasks EXCEPT
                        ![t].pc = IF Resyncs(m) THEN "resync" ELSE "ws",
                        ![t].cause = IF Resyncs(m) THEN NextPid ELSE 0]
    /\ UNCHANGED <<conn, taken>>
    /\ last' = BarStep(t, bar)
    /\ UNCHANGED extVars

\* _resync_and_broadcast after its get_klines returned.
TaskResyncResult(t, cs) ==
    /\ Running(t) /\ tasks[t].pc = "resync"
    /\ Len(produced) < MaxPayloads
    /\ LET key == tasks[t].key
       IN IF StateIsNone(key)
          THEN /\ UNCHANGED streams
               /\ NoEmit
          ELSE /\ streams' = [streams EXCEPT ![key].candles = cs]
               /\ Emit("snapshot", "resync", tasks[t].cause, BroadcastTargets(streams[key]))
    /\ tasks' = [tasks EXCEPT ![t].pc = "ws", ![t].cause = 0]
    /\ UNCHANGED <<conn, taken>>
    /\ last' = OtherStep
    /\ UNCHANGED extVars

\* An exception of the upstream (REST or websocket): `except Exception`.
TaskError(t) ==
    /\ Running(t) /\ tasks[t].pc \in {"rest", "ws", "resync"}
    /\ tasks' = [tasks EXCEPT ![t].pc = "sleep", ![t].cause = 0]
    /\ UNCHANGED <<streams, conn, taken>>
    /\ NoEmit
    /\ last' = OtherStep
    /\ UNCHANGED extVars

\* `await asyncio.sleep(2)` is over: the `while True` loop starts again.
ResumeStreamPc == "ws"
RestartPc == "rest"

TaskSleepDone(t) ==
    /\ Running(t) /\ tasks[t].pc = "sleep"
    /\ tasks' = [tasks EXCEPT ![t].pc = RestartPc]
    /\ UNCHANGED <<streams, conn, taken>>
    /\ NoEmit
    /\ last' = OtherStep
    /\ UNCHANGED extVars

\* The websocket closed normally: the `async for` ends, the loop starts again.
TaskStreamEnd(t) ==
    /\ Running(t) /\ tasks[t].pc = "ws"
    /\ tasks' = [tasks EXCEPT ![t].pc = "rest"]
    /\ UNCHANGED <<streams, conn, taken>>
    /\ NoEmit
    /\ last' = OtherStep
    /\ UNCHANGED extVars

\* CancelledError is thrown into the task at its await: `break`.
TaskCancelled(t) ==
    /\ tasks[t].cancel /\ tasks[t].pc \notin {"unborn", "done"}
    /\ tasks' = [tasks EXCEPT ![t].pc = "done"]
    /\ UNCHANGED <<streams, conn, taken>>
    /\ NoEmit
    /\ last' = OtherStep
    /\ UNCHANGED extVars

Next ==
    \/ \E key \in Keys : Subscribe(key)
    \/ \E key \in Keys, q \in QueueIds : Unsubscribe(key, q)
    \/ \E q \in QueueIds : ConsumerGet(q)
    \/ \E t \in TaskIds, cs \in get_klines(SnapshotLimit) : TaskRestResult(t, cs)
    \/ \E t \in TaskIds, bar \in stream_kline : TaskBar(t, bar)
    \/ \E t \in TaskIds, cs \in get_klines(SnapshotLimit) : TaskResyncResult(t, cs)
    \/ \E t \in TaskIds : TaskError(t)
    \/ \E t \in TaskIds : TaskSleepDone(t)
    \/ \E t \in TaskIds : TaskStreamEnd(t)
    \/ \E t \in TaskIds : TaskCancelled(t)

Spec == Init /\ [][Next]_vars

\* ================================================================ claims
Live(t) == tasks[t].pc \notin {"unborn", "done"} /\ ~tasks[t].cancel
Event(pid) == produced[pid].event
IsBroadcast(pid) == produced[pid].src # "subscribe"
PosIn(seq, x) == CHOOSE i \in 1..Len(seq) : seq[i] = x
Contains(seq, x) == \E i \in 1..Len(seq) : seq[i] = x

\* C1: a StreamState entry exists for a key exactly when some subscriber of
\* that key has subscribed and not yet unsubscribed, the entry's queue set is
\* exactly those subscribers' queues, and once the entry is dropped no task
\* of the key is left uncancelled.  (Keys has one key: every queue is a
\* queue of that key.)
C1_EntryIffSubscribed ==
    \A key \in Keys :
        /\ (key \in DOMAIN streams) <=> (Subscribers # {})
        /\ key \in DOMAIN streams => streams[key].queues = Subscribers
        /\ key \notin DOMAIN streams =>
               \A t \in TaskIds : tasks[t].key = key => ~Live(t)

\* C1 witness: the last subscriber has just unsubscribed; the entry is gone
\* and its task has a cancellation pending.
C1_Witness ==
    /\ \E q \in QueueIds : conn[q] = "closed"
    /\ Subscribers = {}
    /\ DOMAIN streams = {}
    /\ \E t \in TaskIds : tasks[t].cancel /\ tasks[t].pc # "done"

\* C2: at most one stream task of a key is live (created, not cancelled,
\* not finished) at any time, and a live task is the task of the key's entry.
C2_OneLiveTaskPerKey ==
    \A key \in Keys :
        LET live == { t \in TaskIds : Live(t) /\ tasks[t].key = key }
        IN /\ Cardinality(live) <= 1
           /\ \A t \in live : key \in DOMAIN streams /\ streams[key].task = t

\* C2 witness: the last subscriber left and a new one subscribed before the
\* cancelled task reached its await: the old task is still unfinished while
\* the new one is live.
C2_Witness ==
    \E old, new \in TaskIds :
        /\ old # new
        /\ tasks[old].cancel /\ tasks[old].pc \notin {"unborn", "done"}
        /\ Live(new)

\* C3 (as claimed): the first payload ever enqueued into a subscriber's queue
\* is a snapshot.
C3_FirstPayloadIsSnapshot ==
    \A q \in QueueIds : enq[q] # << >> => Event(enq[q][1]) = "snapshot"

\* The last n items of a sequence.
LastItems(seq, n) == SubSeq(seq, Len(seq) - n + 1, Len(seq))

QueueHoldsMostRecent(q) ==
    /\ Len(qitems[q]) <= MaxSize
    /\ Len(qitems[q]) <= Len(enq[q])
    /\ qitems[q] = LastItems(enq[q], Len(qitems[q]))
    /\ \A i \in 1..(Len(enq[q]) - 1) : enq[q][i] < enq[q][i + 1]
    /\ taken[q] = 0 => Len(qitems[q]) = Min(Len(enq[q]), MaxSize)

\* C4: in every step, each queue afterwards holds at most MaxSize payloads,
\* which are the most recent payloads put into it, in production order (with
\* a consumer that took nothing: the last MaxSize of them, or all when fewer);
\* and a step that puts a payload into a queue leaves the queue as it was,
\* less its oldest item if it was full, plus the new payload at the end.
C4_DropOldestKeepsMostRecent ==
    [][ \A q \in QueueIds :
          /\ QueueHoldsMostRecent(q)'
          /\ enq'[q] # enq[q] =>
               /\ enq'[q] = Append(enq[q], Len(produced'))
               /\ qitems'[q] = Append(IF Len(qitems[q]) = MaxSize
                                      THEN Tail(qitems[q]) ELSE qitems[q],
                                      Len(produced')) ]_vars

\* C4 witness: a paused consumer; MaxSize + 1 payloads were put into its
\* queue, which holds the last MaxSize of them.
C4_Witness ==
    \E q \in QueueIds :
        /\ taken[q] = 0
        /\ Len(enq[q]) = MaxSize + 1
        /\ qitems[q] = Tail(enq[q])

\* C5: no queue.put, of subscribe or of _broadcast, ever finds its queue full.
C5_NoPutBlocks == ~blockedPut

\* C5 witness: a consumer that has taken payloads and then fell behind: a
\* broadcast reached its queue when it was full.
C5_Witness ==
    \E q \in QueueIds :
        /\ taken[q] > 0
        /\ Len(enq[q]) > taken[q] + Len(qitems[q])
        /\ Len(qitems[q]) = MaxSize

\* C6 (as claimed): any two queues registered for the key have had the same
\* sequence of payloads put into them.
C6_SameSequenceForAll ==
    \A key \in DOMAIN streams :
        \A a, b \in streams[key].queues : enq[a] = enq[b]

\* The broadcast payloads a queue got among those produced while both a and b
\* were subscribed.
SharedBroadcasts(q, a, b) ==
    SelectSeq(enq[q], LAMBDA pid : IsBroadcast(pid) /\ {a, b} \subseteq produced[pid].reg)

\* C6 (amended): every broadcast payload is put into the queue of every
\* subscriber subscribed when it was produced, so two queues get the same
\* sequence of the broadcast payloads produced while both were subscribed;
\* the snapshot stashed by subscribe goes to the new queue alone.
C6_SameBroadcastsWhileBothSubscribed ==
    /\ \A pid \in 1..Len(produced) :
          IF IsBroadcast(pid)
          THEN \A q \in produced[pid].reg : Contains(enq[q], pid)
          ELSE Cardinality({ q \in QueueIds : Contains(enq[q], pid) }) = 1
    /\ \A a, b \in QueueIds : SharedBroadcasts(a, a, b) = SharedBroadcasts(b, a, b)

\* C6 witness: two subscribers with different histories that share a
\* broadcast payload.
C6_Witness ==
    \E a, b \in QueueIds :
        /\ a # b
        /\ enq[a] # enq[b]
        /\ SharedBroadcasts(a, a, b) # << >>

\* C7: the snapshot of a resync follows, in the queue of every subscriber
\* subscribed at both moments, the upsert of the bar update that caused the
\* resync.
C7_ResyncSnapshotAfterUpsert ==
    \A s \in 1..Len(produced) :
        produced[s].src = "resync" =>
            LET c == produced[s].cause
            IN /\ c \in 1..(s - 1)
               /\ Event(c) = "upsert"
               /\ Event(s) = "snapshot"
               /\ \A q \in produced[c].reg \cap produced[s].reg :
                     /\ Contains(enq[q], c)
                     /\ Contains(enq[q], s)
                     /\ PosIn(enq[q], c) < PosIn(enq[q], s)

\* C7 witness: a resync snapshot reached a subscriber that was there for the
\* upsert too.
C7_Witness ==
    \E s \in 1..Len(produced) :
        /\ produced[s].src = "resync"
        /\ produced[s].cause \in 1..Len(produced)
        /\ produced[produced[s].cause].reg \cap produced[s].reg # {}

\* The window of the task's key before the step, and the bar the step merged.
WindowOf(t) == streams[tasks[t].key].candles
IsBarStep == last'.op = "bar" /\ tasks[last'.t].key \in DOMAIN streams
StaleBar(cs, candidate) == cs # << >> /\ candidate.time < cs[Len(cs)].time
HasTime(cs, time) == \E i \in 1..Len(cs) : cs[i].time = time

C9_WindowStrictlyIncreasing ==
    \A key \in DOMAIN streams : IsStrictlyIncreasing(streams[key].candles)

\* C9 witness: a full window both of whose candles came from bar updates
\* (a replace-last and a replace-stale merge).
C9_Witness ==
    \E key \in DOMAIN streams :
        /\ Len(streams[key].candles) >= 2
        /\ \A i \in 1..Len(streams[key].candles) : streams[key].candles[i].v = 1

\* C10: a bar update older than the last candle that matches no candle of the
\* window changes nothing (window, payloads, queues) and starts no resync;
\* one that matches a candle replaces that candle alone.
C10_StaleBarDiscardOrReplace ==
    [][ IsBarStep /\ StaleBar(WindowOf(last'.t), last'.cand) =>
          LET t == last'.t
              cs == WindowOf(t)
              candidate == last'.cand
              after == streams'[tasks[t].key].candles
          IN IF HasTime(cs, candidate.time)
             THEN /\ Len(after) = Len(cs)
                  /\ \A i \in 1..Len(cs) :
                        after[i] = IF cs[i].time = candidate.time
                                   THEN candidate ELSE cs[i]
             ELSE /\ after = cs
                  /\ UNCHANGED <<produced, qitems, enq>>
                  /\ tasks'[t].pc = "ws" ]_vars

\* C10 witness: a stale bar update that matched no candle was just discarded.
C10_Witness ==
    /\ last.op = "bar"
    /\ tasks[last.t].key \in DOMAIN streams
    /\ StaleBar(WindowOf(last.t), last.cand)
    /\ ~HasTime(WindowOf(last.t), last.cand.time)

\* =================================================== statement-level view
\* The same coroutines followed statement by statement, to see what runs
\* while self._lock is held.  The event loop runs one coroutine at a time
\* (`cpu`); a running coroutine keeps the loop until it reaches an await that
\* waits, and only then may another coroutine run.
MaxWakeups == 7             \* resumptions the event loop delivers

\* One statement: what it does, its line in candle_stream.py, and the position
\* control goes to when its condition fails (0: the coroutine returns).
Ins(op, line, to) == [op |-> op, line |-> line, to |-> to]

\* _make_snapshot_payload / _make_upsert_payload at `line`: the indicators and
\* the strategy, then _apply_trade_logging, whose journal update reads
\* current.json (load_current_trades) and writes it back (save_current_trades).
MakePayload(line) ==
    << Ins("indicators", line, 0), Ins("jload", line, 0), Ins("jsave", line, 0) >>

\* _broadcast: the queue list is copied under the lock, the puts follow the
\* release.  `skip` is where its caller continues.
BroadcastPutUnderLock(skip) ==
    << Ins("acquire", 443, 0), Ins("copy_queues", 444, skip),
       Ins("put_all", 454, 0), Ins("release", 454, 0) >>
Broadcast(skip) ==
    << Ins("acquire", 443, 0), Ins("copy_queues", 444, skip),
       Ins("release", 447, 0), Ins("put_all", 454, 0) >>

\* stream_candles of api/market.py: subscribe, serve the queue until the
\* client goes away, unsubscribe.
HandlerCode ==
    << Ins("acquire", 287, 0), Ins("register", 288, 0), Ins("if_candles", 292, 7) >>
    \o MakePayload(293)
    \o << Ins("spawn", 301, 0), Ins("release", 302, 0), Ins("put", 304, 0),
          Ins("await_get", 130, 0),
          Ins("acquire", 309, 0), Ins("unregister", 310, 0),
          Ins("release", 318, 0), Ins("return", 318, 0) >>

\* _run_stream with _broadcast and _resync_and_broadcast inlined.
\*   1..11  REST fetch, store, initial snapshot, broadcast
\*  12..23  one bar: merge and upsert payload under the lock, broadcast
\*  24..36  resync: REST fetch, store and snapshot under the lock, broadcast
\*  37      `except Exception`: asyncio.sleep(2)
StreamCode ==
    << Ins("await_rest", 324, 0), Ins("acquire", 329, 0), Ins("store", 330, 0),
       Ins("release", 333, 0) >>
    \o MakePayload(334)
    \o Broadcast(12)
    \o << Ins("await_ws", 344, 0), Ins("acquire", 356, 0), Ins("merge", 357, 18) >>
    \o MakePayload(362)
    \o << Ins("release", 411, 0), Ins("if_payload", 413, 24) >>
    \o Broadcast(24)
    \o << Ins("if_resync", 416, 12),
          Ins("await_rest", 425, 0), Ins("acquire", 430, 0), Ins("store", 431, 12) >>
    \o MakePayload(437)
    \o << Ins("release", 439, 0) >>
    \o Broadcast(12)
    \o << Ins("goto", 344, 12), Ins("sleep", 422, 1) >>

LoopStart == 1              \* `while True:` of _run_stream
ExceptPc == 37              \* the `except Exception` handler of _run_stream

CodeOf(c) == IF c \in Handlers THEN HandlerCode ELSE StreamCode
Instr(c) ==
    IF co[c].pc \in 1..Len(CodeOf(c)) THEN CodeOf(c)[co[c].pc] ELSE Ins("none", 0, 0)
Op(c) == Instr(c).op

\* The statements at which a coroutine is always suspended: the REST fetch,
\* the read of the next bar, asyncio.sleep, the handler's queue.get.  The
\* journal's file I/O is synchronous (pathlib read_text / write_text).
YieldsAlsoAtFileIO(op) == op \in {"await_rest", "await_ws", "sleep", "await_get", "jload"}
Yields(op) == op \in {"await_rest", "await_ws", "sleep", "await_get"}

\* `await queue.put(payload)` suspends only when the queue is full.
MayYield(op) == op \in {"put", "put_all"}

\* The outcomes an await can resume with.
Outcomes == {"ok", "error", "end"}

\* The three results of the merge that control flow can see: an upsert
\* without resync, an upsert with resync, neither (stale bar, no match).
MergeOutcomes ==
    { [upsert |-> TRUE, resync |-> FALSE], [upsert |-> TRUE, resync |-> TRUE],
      [upsert |-> FALSE, resync |-> FALSE] }

\* asyncio.create_task: the next task object that does not exist yet.
FreshStreamTask == IF co["t1"].st = "new" THEN "t1" ELSE "t2"

Goto(c, pc) == [co EXCEPT ![c].pc = pc]
Advance(c) == Goto(c, co[c].pc + 1)
Suspend(c) == [co EXCEPT ![c].st = "wait"]
Finish(c) == [co EXCEPT ![c].st = "done", ![c].jopen = FALSE]

\* The event loop starts a handler, or a task created by asyncio.create_task.
\* A task cancelled before its first step never runs its body.
Start(c) ==
    /\ cpu = "idle"
    /\ \/ c \in Handlers /\ co[c].st = "new"
       \/ c \in StreamTasks /\ co[c].st = "ready"
    /\ IF co[c].cancel
       THEN co' = Finish(c) /\ cpu' = cpu
       ELSE co' = [co EXCEPT ![c].st = "run", ![c].pc = 1] /\ cpu' = c
    /\ UNCHANGED <<lock, hs, jfile, jdone, lockWaited, wakeups>>
    /\ UNCHANGED <<hubVars, journalVars, moreVars>>

\* The event loop resumes a suspended coroutine with the outcome of its await.
\* A cancelled task gets CancelledError instead: `break`.
Resume(c, outcome) ==
    /\ cpu = "idle"
    /\ co[c].st = "wait"
    /\ wakeups < MaxWakeups
    /\ wakeups' = wakeups + 1
    /\ IF co[c].cancel
       THEN /\ outcome = "ok"
            /\ co' = Finish(c)
            /\ cpu' = cpu
            /\ lock' = IF lock = c THEN "free" ELSE lock
       ELSE /\ cpu' = c
            /\ CASE Op(c) = "acquire" ->
                      /\ outcome = "ok" /\ lock = "free"
                      /\ lock' = c
                      /\ co' = [co EXCEPT ![c].st = "run", ![c].pc = @ + 1]
                 [] Op(c) \in {"await_rest", "await_ws"} ->
                      /\ outcome = "end" => Op(c) = "await_ws"
                      /\ lock' = IF outcome = "ok" \/ lock # c THEN lock ELSE "free"
                      /\ co' = [co EXCEPT ![c].st = "run",
                                          ![c].pc = IF outcome = "ok" THEN @ + 1
                                                    ELSE IF outcome = "error" THEN ExceptPc
                                                    ELSE LoopStart]
                 [] Op(c) = "sleep" ->
                      /\ outcome = "ok"
                      /\ lock' = lock
                      /\ co' = [co EXCEPT ![c].st = "run", ![c].pc = Instr(c).to]
                 [] OTHER ->
                      /\ outcome = "ok"
                      /\ lock' = lock
                      /\ co' = [co EXCEPT ![c].st = "run", ![c].pc = @ + 1]
    /\ UNCHANGED <<hs, jfile, jdone, lockWaited>>
    /\ UNCHANGED <<hubVars, journalVars, moreVars>>

\* `async with self._lock:` and its exit.
StepLock(c) ==
    /\ cpu = c /\ Op(c) \in {"acquire", "release"}
    /\ IF Op(c) = "release"
       THEN /\ lock' = "free"
            /\ co' = Advance(c)
            /\ UNCHANGED <<cpu, lockWaited>>
       ELSE IF lock = "free"
            THEN /\ lock' = c
                 /\ co' = Advance(c)
                 /\ UNCHANGED <<cpu, lockWaited>>
            ELSE /\ lockWaited' = TRUE
                 /\ co' = Suspend(c)
                 /\ cpu' = "idle"
                 /\ lock' = lock
    /\ UNCHANGED <<hs, jfile, jdone, wakeups>>
    /\ UNCHANGED <<hubVars, journalVars, moreVars>>

\* The statements that read or change self._streams and the StreamState.
\* A `return` inside `async with` releases the lock.
StepHub(c) ==
    /\ cpu = c
    /\ Op(c) \in {"register", "spawn", "unregister", "store", "merge", "copy_queues"}
    /\ CASE Op(c) = "register" ->
              /\ hs' = [hs EXCEPT !.exists = TRUE, !.queues = @ \cup {c}]
              /\ co' = Advance(c)
              /\ lock' = lock
         [] Op(c) = "spawn" ->
              /\ lock' = lock
              /\ IF hs.task = "none" \/ co[hs.task].st = "done"
                 THEN \E t \in StreamTasks :
                        /\ t = FreshStreamTask
                        /\ co[t].st = "new"
                        /\ hs' = [hs EXCEPT !.task = t]
                        /\ co' = [Advance(c) EXCEPT ![t].st = "ready"]
                 ELSE hs' = hs /\ co' = Advance(c)
         [] Op(c) = "unregister" ->
              /\ lock' = lock
              /\ IF ~hs.exists
                 THEN hs' = hs /\ co' = Advance(c)
                 ELSE IF hs.queues \ {c} # {}
                      THEN hs' = [hs EXCEPT !.queues = @ \ {c}] /\ co' = Advance(c)
                      ELSE /\ hs' = NoStream
                           /\ co' = IF hs.task # "none" /\ co[hs.task].st # "done"
                                    THEN [Advance(c) EXCEPT ![hs.task].cancel = TRUE]
                                    ELSE Advance(c)
         [] Op(c) = "store" ->
              IF ~hs.exists
              THEN /\ lock' = "free"
                   /\ hs' = hs
                   /\ co' = IF Instr(c).to = 0 THEN Finish(c) ELSE Goto(c, Instr(c).to)
              ELSE /\ lock' = lock
                   /\ \E nonempty \in BOOLEAN : hs' = [hs EXCEPT !.candles = nonempty]
                   /\ co' = Advance(c)
         [] Op(c) = "merge" ->
              IF ~hs.exists
              THEN /\ lock' = "free"
                   /\ hs' = hs
                   /\ co' = Finish(c)
              ELSE /\ lock' = lock
                   /\ \E m \in MergeOutcomes :
                        /\ m.resync => hs.candles
                        /\ ~hs.candles => m.upsert
                        /\ hs' = [hs EXCEPT !.candles = @ \/ m.upsert]
                        /\ co' = [co EXCEPT ![c].resync = m.resync,
                                            ![c].payload = FALSE,
                                            ![c].pc = IF m.upsert THEN @ + 1
                                                      ELSE Instr(c).to]
         [] Op(c) = "copy_queues" ->
              /\ hs' = hs
              /\ IF ~hs.exists
                 THEN lock' = "free" /\ co' = [Goto(c, Instr(c).to) EXCEPT ![c].payload = FALSE]
                 ELSE lock' = lock /\ co' = Advance(c)
    /\ cpu' = IF co'[c].st = "done" THEN "idle" ELSE cpu
    /\ UNCHANGED <<jfile, jdone, lockWaited, wakeups>>
    /\ UNCHANGED <<hubVars, journalVars, moreVars>>

\* Payload construction: the indicators, then the journal's read-modify-write
\* of current.json (add_current_trade, update_current_trade_stop,
\* remove_current_trade: load_current_trades ... save_current_trades).
StepBuild(c) ==
    /\ cpu = c /\ Op(c) \in {"indicators", "jload", "jsave"}
    /\ CASE Op(c) = "indicators" ->
              /\ co' = [Advance(c) EXCEPT ![c].payload = TRUE]
              /\ UNCHANGED <<jfile, jdone, cpu>>
         [] Op(c) = "jload" ->
              /\ UNCHANGED <<jfile, jdone>>
              /\ IF Yields("jload")
                 THEN /\ co' = [Suspend(c) EXCEPT ![c].jlocal = jfile, ![c].jopen = TRUE]
                      /\ cpu' = "idle"
                 ELSE /\ co' = [Advance(c) EXCEPT ![c].jlocal = jfile, ![c].jopen = TRUE]
                      /\ cpu' = cpu
         [] Op(c) = "jsave" ->
              /\ jfile' = co[c].jlocal + 1
              /\ jdone' = jdone + 1
              /\ co' = [Advance(c) EXCEPT ![c].jopen = FALSE]
              /\ cpu' = cpu
    /\ UNCHANGED <<lock, hs, lockWaited, wakeups>>
    /\ UNCHANGED <<hubVars, journalVars, moreVars>>

\* `if state.candles:`, `if event_payload is not None:`, `if do_resync:`,
\* the end of the bar loop's body, and the handler's return.
StepBranch(c) ==
    /\ cpu = c /\ Op(c) \in {"if_candles", "if_payload", "if_resync", "goto", "return"}
    /\ LET taken_ == CASE Op(c) = "if_candles" -> hs.candles
                       [] Op(c) = "if_payload" -> co[c].payload
                       [] Op(c) = "if_resync" -> co[c].resync
                       [] OTHER -> FALSE
       IN IF Op(c) = "return"
          THEN co' = Finish(c) /\ cpu' = "idle"
          ELSE /\ co' = IF taken_ THEN Advance(c) ELSE Goto(c, Instr(c).to)
               /\ cpu' = cpu
    /\ UNCHANGED <<lock, hs, jfile, jdone, lockWaited, wakeups>>
    /\ UNCHANGED <<hubVars, journalVars, moreVars>>

\* `await queue.put(payload)`: returns at once, or waits for room.  subscribe
\* puts only a stashed snapshot.
StepPut(c, waits) ==
    /\ cpu = c /\ MayYield(Op(c))
    /\ waits => co[c].payload
    /\ IF waits
       THEN co' = [Suspend(c) EXCEPT ![c].payload = FALSE] /\ cpu' = "idle"
       ELSE co' = [Advance(c) EXCEPT ![c].payload = FALSE] /\ cpu' = cpu
    /\ UNCHANGED <<lock, hs, jfile, jdone, lockWaited, wakeups>>
    /\ UNCHANGED <<hubVars, journalVars, moreVars>>

\* An await that waits: the coroutine gives the event loop back.
StepAwait(c) ==
    /\ cpu = c /\ Yields(Op(c)) /\ Op(c) # "jload"
    /\ co' = Suspend(c)
    /\ cpu' = "idle"
    /\ UNCHANGED <<lock, hs, jfile, jdone, lockWaited, wakeups>>
    /\ UNCHANGED <<hubVars, journalVars, moreVars>>

NextSched ==
    \/ \E c \in Cos : Start(c)
    \/ \E c \in Cos, outcome \in Outcomes : Resume(c, outcome)
    \/ \E c \in Cos : StepLock(c)
    \/ \E c \in Cos : StepHub(c)
    \/ \E c \in Cos : StepBuild(c)
    \/ \E c \in Cos : StepBranch(c)
    \/ \E c \in Cos, waits \in BOOLEAN : StepPut(c, waits)
    \/ \E c \in Cos : StepAwait(c)

SpecSched == Init /\ [][NextSched]_vars

Suspended(c) == co[c].st = "wait"
InPayloadConstruction(c) == cpu = c /\ Op(c) \in {"indicators", "jload", "jsave"}
InJournalUpdate(c) == cpu = c /\ Op(c) \in {"jload", "jsave"}

\* C11: the hub lock is never held by a coroutine that is suspended (at the
\* REST fetch, the websocket read, queue.put or anywhere else), and no
\* `async with self._lock` of subscribe, unsubscribe or the task ever found
\* the lock held.
C11_LockFreeAtEveryAwait ==
    /\ \A c \in Cos : Suspended(c) => lock # c
    /\ cpu = "idle" => lock = "free"
    /\ ~lockWaited

\* C11 witness: a stream task is waiting in queue.put of a broadcast (a slow
\* consumer) while a handler has taken the lock.
C11_Witness ==
    \E t \in StreamTasks, h \in Handlers :
        /\ Suspended(t) /\ Op(t) = "put_all"
        /\ lock = h

\* C12: no coroutine holds the hub lock while it constructs a payload (the
\* indicators, the strategy and the journal update), in subscribe, in the
\* bar-update merge and in the resync alike.
C12_PayloadsBuiltOutsideLock ==
    \A c \in Cos : InPayloadConstruction(c) => lock # c

\* C13, as stated: every recompute that updates the journal runs while its
\* coroutine holds the hub lock.
C13_JournalWritesUnderLock ==
    \A c \in Cos : InJournalUpdate(c) => lock = c

\* C13, amended: a journal update is never interrupted -- the coroutine that
\* has read current.json keeps the event loop until it has written it back --
\* so at most one update is open at a time and none is lost.  The updates of
\* subscribe (293), the bar merge (362) and the resync (437) run under the
\* lock; the one of the task's initial snapshot (334) runs with the lock free.
C13_JournalUpdatesNeverInterleave ==
    /\ \A c \in Cos : co[c].jopen => cpu = c
    /\ Cardinality({ c \in Cos : co[c].jopen }) <= 1
    /\ jfile = jdone
    /\ \A c \in Cos : InJournalUpdate(c) =>
           IF Instr(c).line = 334 THEN lock = "free" ELSE lock = c

\* C13 witness: subscribe's recompute is about to write current.json back
\* after the stream task, now suspended, has completed an update of its own
\* outside the lock.
C13_Witness ==
    \E h \in Handlers, t \in StreamTasks :
        /\ cpu = h /\ Op(h) = "jsave" /\ co[h].jopen
        /\ Suspended(t)
        /\ jdone >= 1

\* ============================================ failing payload construction
\* _make_snapshot_payload and _make_upsert_payload run the indicators, the
\* strategy and the journal for a non-empty window; any exception they raise
\* inside the task body lands in `except Exception` like an upstream error.
\* The window has been stored (or merged) before the payload is built.

\* get_klines returned and the window was stored, the snapshot failed.
TaskRestPayloadFails(t, cs) ==
    /\ Running(t) /\ tasks[t].pc = "rest"
    /\ ~StateIsNone(tasks[t].key)
    /\ cs # << >>
    /\ streams' = [streams EXCEPT ![tasks[t].key].candles = cs]
    /\ tasks' = [tasks EXCEPT ![t].pc = "sleep", ![t].cause = 0]
    /\ UNCHANGED <<conn, taken>>
    /\ NoEmit
    /\ last' = OtherStep
    /\ UNCHANGED extVars

\* The bar was merged under the lock, the upsert payload failed: no
\* broadcast, no resync.
TaskBarPayloadFails(t, bar) ==
    /\ Running(t) /\ tasks[t].pc = "ws"
    /\ ~StateIsNone(tasks[t].key)
    /\ LET m == MergeBar(streams[tasks[t].key].candles, bar, SnapshotLimit)
       IN /\ m.upsert
          /\ streams' = [streams EXCEPT ![tasks[t].key].candles = m.candles]
    /\ tasks' = [tasks EXCEPT ![t].pc = "sleep", ![t].cause = 0]
    /\ UNCHANGED <<conn, taken>>
    /\ NoEmit
    /\ last' = BarStep(t, bar)
    /\ UNCHANGED extVars

\* The resync's get_klines returned and the window was stored, the snapshot
\* failed.
TaskResyncPayloadFails(t, cs) ==
    /\ Running(t) /\ tasks[t].pc = "resync"
    /\ ~StateIsNone(tasks[t].key)
    /\ cs # << >>
    /\ streams' = [streams EXCEPT ![tasks[t].key].candles = cs]
    /\ tasks' = [tasks EXCEPT ![t].pc = "sleep", ![t].cause = 0]
    /\ UNCHANGED <<conn, taken>>
    /\ NoEmit
    /\ last' = OtherStep
    /\ UNCHANGED extVars

NextFail ==
    \/ \E key \in Keys : Subscribe(key)
    \/ \E key \in Keys, q \in QueueIds : Unsubscribe(key, q)
    \/ \E q \in QueueIds : ConsumerGet(q)
    \/ \E t \in TaskIds, cs \in get_klines(SnapshotLimit) : TaskRestResult(t, cs)
    \/ \E t \in TaskIds, bar \in stream_kline : TaskBar(t, bar)
    \/ \E t \in TaskIds, cs \in get_klines(SnapshotLimit) : TaskResyncResult(t, cs)
    \/ \E t \in TaskIds : TaskError(t)
    \/ \E t \in TaskIds : TaskSleepDone(t)
    \/ \E t \in TaskIds : TaskStreamEnd(t)
    \/ \E t \in TaskIds : TaskCancelled(t)
    \/ \E t \in TaskIds, cs \in get_klines(SnapshotLimit) : TaskRestPayloadFails(t, cs)
    \/ \E t \in TaskIds, bar \in stream_kline : TaskBarPayloadFails(t, bar)
    \/ \E t \in TaskIds, cs \in get_klines(SnapshotLimit) : TaskResyncPayloadFails(t, cs)

SpecFail == Init /\ [][NextFail]_vars

QueuesOf(ss, key) == IF key \in DOMAIN ss THEN ss[key].queues ELSE {}
IsRestSnapshot(p) == p.event = "snapshot" /\ p.src = "rest"

\* C14: an exception in the task body (REST fetch, websocket, payload
\* construction, resync) sends the task to the 2 s backoff and leaves every
\* key's queue set as it was; from the backoff the task goes only to the REST
\* fetch; from the REST fetch it reaches the bar stream only by storing the
\* fetched window and broadcasting a snapshot of it; a bar update is merged
\* only from the bar stream; and the task ends only when cancelled.
C14_ErrorBacksOffAndRestarts ==
    [][ \A t \in TaskIds :
          /\ (tasks[t].pc \in {"rest", "ws", "resync"} /\ tasks'[t].pc = "sleep") =>
                /\ \A key \in Keys : QueuesOf(streams', key) = QueuesOf(streams, key)
                /\ UNCHANGED <<conn, qitems, produced>>
          /\ tasks[t].pc = "sleep" => tasks'[t].pc \in {"sleep", "rest", "done"}
          /\ (tasks[t].pc = "rest" /\ tasks'[t].pc \notin {"rest", "sleep", "done"}) =>
                /\ tasks'[t].pc = "ws"
                /\ Len(produced') = Len(produced) + 1
                /\ IsRestSnapshot(produced'[Len(produced')])
                /\ streams'[tasks[t].key].candles \in get_klines(SnapshotLimit)
                /\ \A q \in streams[tasks[t].key].queues :
                      Contains(qitems'[q], Len(produced'))
          /\ (last'.op = "bar" /\ last'.t = t) => tasks[t].pc = "ws"
          /\ (tasks[t].pc # "done" /\ tasks'[t].pc = "done") => tasks[t].cancel
      ]_vars

\* C14 witness: the window was stored but its payload construction failed (no
\* payload was ever produced), the task is in its backoff and both
\* subscribers are still registered.
C14_Witness ==
    \E t \in TaskIds :
        /\ tasks[t].pc = "sleep"
        /\ tasks[t].key \in DOMAIN streams
        /\ streams[tasks[t].key].candles # << >>
        /\ produced = << >>
        /\ Cardinality(streams[tasks[t].key].queues) = 2

\* C15: a task whose cancellation was requested stays cancelled and does
\* nothing but exit: its position never changes except to "done", it merges
\* no bar update, and the step in which it exits changes no window and
\* produces no payload -- also when the key's state exists again.
C15_CancelledTaskOnlyExits ==
    [][ \A t \in TaskIds : tasks[t].cancel =>
          /\ tasks'[t].cancel
          /\ tasks'[t].pc \in {tasks[t].pc, "done"}
          /\ ~(last'.op = "bar" /\ last'.t = t)
          /\ tasks'[t].pc # tasks[t].pc => UNCHANGED <<streams, produced, qitems, enq>>
      ]_vars

\* C15 witness: the cancelled task has exited while a new subscriber's state
\* for the same key exists, with a window stored by the new task.
C15_Witness ==
    \E t \in TaskIds :
        /\ tasks[t].cancel /\ tasks[t].pc = "done"
        /\ tasks[t].key \in DOMAIN streams
        /\ streams[tasks[t].key].task # t
        /\ streams[tasks[t].key].candles # << >>

\* ================================================================ liveness
\* The scheduling the event loop guarantees: a sleeping task wakes up, a
\* pending cancellation is delivered -- and the hypothesis of the liveness
\* statement: a REST fetch that is retried again and again eventually
\* succeeds.  Nothing obliges the upstream to push a bar update.
Fairness ==
    \A t \in TaskIds :
        /\ WF_vars(TaskSleepDone(t))
        /\ WF_vars(TaskCancelled(t))
        /\ SF_vars(\E cs \in get_klines(SnapshotLimit) : TaskRestResult(t, cs))
        /\ SF_vars(\E cs \in get_klines(SnapshotLimit) : TaskResyncResult(t, cs))

SpecLive == Init /\ [][Next]_vars /\ Fairness

HasSnapshot(q) == \E i \in 1..Len(enq[q]) : Event(enq[q][i]) = "snapshot"

\* The history of payloads is full: the model takes no further payload step.
Exhausted == Len(produced) >= MaxPayloads

\* C16: while a key has a subscriber its task has not given up (the entry's
\* task is live), and every queue that is subscribed and stays subscribed
\* eventually has a snapshot payload enqueued.
C16_SnapshotEventuallyEnqueued ==
    /\ [](\A key \in DOMAIN streams :
            streams[key].task # None /\ Live(streams[key].task))
    /\ \A q \in QueueIds :
          (conn[q] = "open") ~> (conn[q] # "open" \/ HasSnapshot(q) \/ Exhausted)

\* ================================================= the journal's recomputes
\* One call of _apply_trade_logging on window `cs` with the strategy's output
\* `out`; `budget` writes succeed before one raises.  What was written and
\* what the state recorded before the exception stays.
Recompute(cs, out, budget, op) ==
    LET m == apply_trade_logging(Machine(index, current, js, budget), out, cs)
    IN /\ index' = m.index
       /\ current' = m.current
       /\ js' = m.st
       /\ jcandles' = cs
       /\ strat' = out
       /\ jhist' = [jhist EXCEPT !.op = op]

NextBarTime == IF jcandles = << >> THEN 1 ELSE TimeSec(jcandles[Len(jcandles)]) + 1

\* A new bar rolls the window over (or the first snapshot arrives), the
\* payload is built for the new window.
NewBarRecompute(low, budget) ==
    /\ Len(index) < MaxRecords
    /\ NextBarTime <= MaxBars
    /\ LET cs == Truncate(Append(jcandles, OhlcCandle(NextBarTime, low)), JournalLimit)
       IN \E out \in StrategyOutputs(cs) : Recompute(cs, out, budget, "bar")
    /\ UNCHANGED <<hubVars, schedVars, moreVars>>

\* A payload is built for an unchanged window: subscribe's cached snapshot, a
\* resync or a restart's REST fetch that returns the same bars.
SameWindowRecompute(budget) ==
    /\ Len(index) < MaxRecords
    /\ jcandles # << >>
    /\ Recompute(jcandles, strat, budget, "same")
    /\ UNCHANGED <<hubVars, schedVars, moreVars>>

\* The process restarts, or the last subscriber leaves and a new one comes:
\* the files stay, the CandleStreamState is a new object.
Restart ==
    /\ js # FreshJournalState
    /\ js' = FreshJournalState
    /\ jhist' = [op |-> "restart", epoch |-> Len(index)]
    /\ UNCHANGED <<jcandles, strat, index, current>>
    /\ UNCHANGED <<hubVars, schedVars, moreVars>>

\* Every write succeeds.
NextJournal ==
    \/ \E low \in LowPrices : NewBarRecompute(low, NoFailure)
    \/ SameWindowRecompute(NoFailure)
    \/ Restart

SpecJournal == Init /\ [][NextJournal]_vars

\* A write may fail.
Budgets == {NoFailure} \cup (0..MaxWrites)

NextJournalFail ==
    \/ \E low \in LowPrices, budget \in Budgets : NewBarRecompute(low, budget)
    \/ \E budget \in Budgets : SameWindowRecompute(budget)
    \/ Restart

SpecJournalFail == Init /\ [][NextJournalFail]_vars

IsRecord(r, type, tid) == r.type = type /\ r.tradeId = tid
TradeIds == 1..MaxBars
OpenIds == { current[i].tradeId : i \in 1..Len(current) }
EmittedIds == { TradeId(strat.events[i].time) : i \in 1..Len(strat.events) }

\* The step is the first recompute of a fresh state, on the window of the
\* last recompute before the restart.
FirstRecomputeAfterRestart ==
    /\ ~js.current_trades_restored
    /\ jhist.op = "restart"
    /\ jhist'.op = "same"

\* C17: the first recompute after a restart, run on the same window as
\* before, appends no entry record and no exit record for a tradeId that
\* already has one in index.jsonl.
C17_NoDuplicateAfterRestart ==
    [][ FirstRecomputeAfterRestart =>
          \A k \in (Len(index) + 1)..Len(index') :
              index'[k].type \in {"entry", "exit"} =>
                  \A j \in 1..(k - 1) :
                      ~IsRecord(index'[j], index'[k].type, index'[k].tradeId)
      ]_vars

\* C18: every stop_move record and every exit record of index.jsonl comes
\* after an entry record of the same tradeId.
C18_EntryPrecedes ==
    \A j \in 1..Len(index) :
        index[j].type \in {"stop_move", "exit"} =>
            \E i \in 1..(j - 1) : IsRecord(index[i], "entry", index[j].tradeId)

\* C18 witness: a restored trade got a stop_move record and then its exit
\* record from the state that restored it.
C18_Witness ==
    \E i, j \in (jhist.epoch + 1)..Len(index) :
        /\ jhist.epoch > 0
        /\ i < j
        /\ index[i].type = "stop_move" /\ index[j].type = "exit"
        /\ index[i].tradeId = index[j].tradeId
        /\ \E k \in 1..Len(js.restored_trades) :
              js.restored_trades[k].tradeId = index[j].tradeId

\* C19: among the records one CandleStreamState has appended to index.jsonl
\* there is at most one exit per tradeId.
C19_AtMostOneExit ==
    \A tid \in TradeIds :
        Cardinality({ j \in (jhist.epoch + 1)..Len(index) :
                        IsRecord(index[j], "exit", tid) }) <= 1

ChangedLists(trades) ==
    { Append(trades, CurrentTrade(id, id, InitialStop, "long")) :
        id \in { i \in 1..MaxBars : Len(trades) < MaxTrades
                                     /\ \A k \in 1..Len(trades) : trades[k].tradeId # i } }
    \cup { [trades EXCEPT ![k].currentStopPrice = TrailedStop] :
             k \in { j \in 1..Len(trades) : trades[j].currentStopPrice # TrailedStop } }
    \cup { SelectSeq(trades, LAMBDA t : t.tradeId # trades[k].tradeId) : k \in 1..Len(trades) }

\* save_current_trades is called with a changed list
SaveStart(trades) ==
    /\ wr.pc = "idle"
    /\ trades \in ChangedLists(mem)
    /\ wr' = [pc |-> "open", trades |-> trades, done |-> 0]
    /\ UNCHANGED <<disk, mem>>
    /\ UNCHANGED <<hubVars, schedVars, journalVars, stratVars, tailVars>>

\* path.write_text opens the file with mode "w": it is created or truncated
SaveTruncate ==
    /\ wr.pc = "open"
    /\ disk' = [exists |-> TRUE, doc |-> << >>]
    /\ wr' = [wr EXCEPT !.pc = "write"]
    /\ UNCHANGED mem
    /\ UNCHANGED <<hubVars, schedVars, journalVars, stratVars, tailVars>>

\* the next piece of the text reaches the file
SaveFlush ==
    /\ wr.pc = "write"
    /\ wr.done < Len(Serialize(wr.trades))
    /\ disk' = [disk EXCEPT !.doc = Append(@, Serialize(wr.trades)[wr.done + 1])]
    /\ wr' = [wr EXCEPT !.done = @ + 1]
    /\ UNCHANGED mem
    /\ UNCHANGED <<hubVars, schedVars, journalVars, stratVars, tailVars>>

\* the file is closed, save_current_trades returns
SaveClose ==
    /\ wr.pc = "write"
    /\ wr.done = Len(Serialize(wr.trades))
    /\ mem' = wr.trades
    /\ wr' = [wr EXCEPT !.pc = "idle"]
    /\ UNCHANGED disk
    /\ UNCHANGED <<hubVars, schedVars, journalVars, stratVars, tailVars>>

\* the process dies (kill, power loss): the file stays as it is
Crash ==
    /\ wr.pc \in {"open", "write"}
    /\ wr' = [wr EXCEPT !.pc = "crashed"]
    /\ UNCHANGED <<disk, mem>>
    /\ UNCHANGED <<hubVars, schedVars, journalVars, stratVars, tailVars>>

\* the next process loads the file (_restore_current_trades)
Recover ==
    /\ wr.pc = "crashed"
    /\ mem' = LoadFromDisk(disk)
    /\ wr' = [pc |-> "idle", trades |-> LoadFromDisk(disk), done |-> 0]
    /\ UNCHANGED disk
    /\ UNCHANGED <<hubVars, schedVars, journalVars, stratVars, tailVars>>

NextSave ==
    \/ \E trades \in ChangedLists(mem) : SaveStart(trades)
    \/ SaveTruncate
    \/ SaveFlush
    \/ SaveClose
    \/ Crash
    \/ Recover

SpecSave == Init /\ [][NextSave]_vars

\* C21: at every instant current.json holds the complete previous trade list
\* or the complete new one (or was never written).
C21_FileIsPreviousOrNew ==
    disk.exists => disk.doc \in {Serialize(mem), Serialize(wr.trades)}

\* The tradeIds with an entry record and no exit record in index.jsonl.
OpenInIndex ==
    { tid \in TradeIds :
        /\ \E j \in 1..Len(index) : IsRecord(index[j], "entry", tid)
        /\ ~\E j \in 1..Len(index) : IsRecord(index[j], "exit", tid) }

\* The step is a recompute that ran to its end: no write raised.
CompletedRecompute ==
    /\ jhist'.op \in {"bar", "same"}
    /\ \E budget \in Budgets :
          LET m == apply_trade_logging(Machine(index, current, js, budget), strat', jcandles')
          IN ~m.raised /\ index' = m.index /\ current' = m.current /\ js' = m.st

\* C22: after every completed recompute the tradeIds of current.json are the
\* tradeIds with an entry record and no exit record in index.jsonl.
C22_CurrentIsOpenInIndex ==
    [][ CompletedRecompute => (OpenIds = OpenInIndex)' ]_vars

\* ------------------------------------------------- restored trades and their exits
\* The lows of the bars of this view: one between the two stop prices too.
AllLows == {1, 2, 3}

\* The first payload of a fresh state is built from the REST snapshot, which
\* may hold several bars the journal has not seen (the process was down).
RestFetchRecompute(low1, low2) ==
    /\ ~js.current_trades_restored
    /\ Len(index) < MaxRecords
    /\ NextBarTime + 1 <= MaxBars
    /\ LET cs == Truncate(Append(Append(jcandles, OhlcCandle(NextBarTime, low1)),
                                 OhlcCandle(NextBarTime + 1, low2)), JournalLimit)
       IN \E out \in StrategyOutputs(cs) : Recompute(cs, out, NoFailure, "bar")
    /\ UNCHANGED <<hubVars, schedVars, moreVars>>

NextJournalGap ==
    \/ \E low \in AllLows : NewBarRecompute(low, NoFailure)
    \/ \E low1, low2 \in AllLows : RestFetchRecompute(low1, low2)
    \/ SameWindowRecompute(NoFailure)
    \/ Restart

SpecJournalGap == Init /\ [][NextJournalGap]_vars

\* The open trades the state has restored, or will restore in its first
\* recompute, that the strategy's new output does not contain.
RestoredNotEmitted ==
    LET restored == IF js.current_trades_restored THEN js.restored_trades ELSE current
        emitted == { TradeId(strat'.events[i].time) : i \in 1..Len(strat'.events) }
    IN { t \in { current[i] : i \in 1..Len(current) } :
           /\ \E k \in 1..Len(restored) : restored[k].tradeId = t.tradeId
           /\ t.tradeId \notin emitted
           /\ t.tradeId \notin js.logged_exit_ids }

\* A bar of the window after the trade's entry reaches the trade's stop.
StopReached(t, cs) ==
    \E i \in 1..Len(cs) :
        /\ TimeSec(cs[i]) > t.entryTime
        /\ IF t.side = "long" THEN cs[i].low <= t.currentStopPrice
           ELSE cs[i].high >= t.currentStopPrice

\* The step appends an exit record for the trade and removes it from current.json.
ExitLogged(tid) ==
    /\ \E j \in (Len(index) + 1)..Len(index') : IsRecord(index'[j], "exit", tid)
    /\ \A i \in 1..Len(current') : current'[i].tradeId # tid

\* C23: a recompute logs the exit of a restored trade the strategy no longer
\* emits exactly when a bar of the window after the trade's entry reaches the
\* trade's own current stop price.
C23_RestoredExitDetected ==
    [][ jhist'.op \in {"bar", "same"} =>
          \A t \in RestoredNotEmitted :
              StopReached(t, jcandles') <=> ExitLogged(t.tradeId)
      ]_vars

\* ------------------------------------------------- compute_order_block_trend_following
MaxStratBars == 3           \* bars the loop processes
MaxTriggers == 1            \* raw order-block events of one bar

\* Prices are multiples of PriceUnit, so that `(entry - support) / 2` and each
\* `crossed - 0.75 * (crossed - stop)` of a run are exact.
RECURSIVE Pow4(_)
Pow4(k) == IF k = 0 THEN 1 ELSE 4 * Pow4(k - 1)
PriceUnit == 2 * Pow4(MaxStratBars)
Prices == { PriceUnit, 2 * PriceUnit, 3 * PriceUnit }

\* The order-block zones the raw events name: (top, bottom).
Zones == { <<2 * PriceUnit, PriceUnit>>, <<3 * PriceUnit, 2 * PriceUnit>> }

StratCandle(n, low, close, high) ==
    [time |-> n * MsPerSec, low |-> low, high |-> high, close |-> close]

RawEvent(type, zone) == [type |-> type, ob_top |-> zone[1], ob_bottom |-> zone[2]]

\* What _iter_order_blocks_with_events can yield as an event of candle `c`:
\* a boundary cross needs low <= top < close (high >= bottom > close), a
\* breaker needs min(close, open) < bottom (max(close, open) > top).
RawEventsOf(c) ==
    { RawEvent("bullish_boundary_crossed", z) : z \in { y \in Zones : c.low <= y[1] /\ c.close > y[1] } }
    \cup { RawEvent("bullish_breaker_created", z) : z \in { y \in Zones : c.low < y[2] } }
    \cup { RawEvent("bearish_boundary_crossed", z) : z \in { y \in Zones : c.high >= y[2] /\ c.close < y[2] } }
    \cup { RawEvent("bearish_breaker_created", z) : z \in { y \in Zones : c.high > y[1] } }

\* The inputs of one bar besides the candle: the regime colours, the volume
\* test, whether an order block of the other side blocks an entry, the S/R
\* line of sufficient width (0: none) and the order-block level that counts
\* for trailing (0: none).
BarInput(is_bull, is_bear, raw_events, vol_spike, ob_blocks, sr_line, ob_level, last_close) ==
    [is_bull |-> is_bull, is_bear |-> is_bear, raw_events |-> raw_events,
     vol_spike |-> vol_spike, ob_blocks |-> ob_blocks, sr_line |-> sr_line,
     ob_level |-> ob_level, last_close |-> last_close]

Max2(a, b) == IF a >= b THEN a ELSE b
Min2(a, b) == IF a <= b THEN a ELSE b

\* _get_closest_support_below / _get_closest_resistance_above (0: None)
closest_support_below(sr_line, price) == IF sr_line # 0 /\ sr_line < price THEN sr_line ELSE 0
closest_resistance_above(sr_line, price) == IF sr_line # 0 /\ sr_line > price THEN sr_line ELSE 0

compute_initial_stop_long(ob_bottom, sr_line, entry) ==
    LET support == closest_support_below(sr_line, entry)
    IN IF support = 0 THEN ob_bottom
       ELSE Max2(ob_bottom, support - ((entry - support) \div 2))

compute_initial_stop_short(ob_top, sr_line, entry) ==
    LET resistance == closest_resistance_above(sr_line, entry)
    IN IF resistance = 0 THEN ob_top
       ELSE Min2(ob_top, resistance + ((resistance - entry) \div 2))

\* The two blocking tests of an entry attempt.
BlockedLong(in, entry, ob_width) ==
    \/ in.ob_blocks
    \/ LET support == closest_support_below(in.sr_line, entry)
       IN support # 0 /\ entry - support < 2 * ob_width

BlockedShort(in, entry, ob_width) ==
    \/ in.ob_blocks
    \/ LET resistance == closest_resistance_above(in.sr_line, entry)
       IN resistance # 0 /\ resistance - entry < 2 * ob_width

\* events.append(TradeEvent(...)); position = _ActivePosition(...);
\* stop_segments.append(StopSegment(time_s, time_s, stop, side))
Enter(m, c, i, side, type, stop) ==
    [m EXCEPT
       !.events = Append(@, TradeEvent(TimeSec(c), i, type, side, stop)),
       !.position = ActivePosition(side, i, stop, Len(m.stop_segments) + 1),
       !.stop_segments = Append(@, StopSegment(TimeSec(c), TimeSec(c), stop, side))]

\* "Check pending confirmation", long: `skip` records the `continue`
ConfirmPendingLong(m, c, i, in) ==
    IF m.pending_long.set /\ in.is_bull
    THEN IF c.close > m.pending_long.ob_top
         THEN IF BlockedLong(in, c.close, m.pending_long.ob_top - m.pending_long.ob_bottom)
              THEN [m EXCEPT !.pending_long = NoPending, !.skip = TRUE]
              ELSE Enter(m, c, i, "long", "OB_TREND_BUY",
                         compute_initial_stop_long(m.pending_long.ob_bottom, in.sr_line, c.close))
         ELSE [m EXCEPT !.pending_long = NoPending]
    ELSE [m EXCEPT !.pending_long = NoPending]

ConfirmPendingShort(m, c, i, in) ==
    IF m.pending_short.set /\ in.is_bear
    THEN IF c.close < m.pending_short.ob_bottom
         THEN IF BlockedShort(in, c.close, m.pending_short.ob_top - m.pending_short.ob_bottom)
              THEN [m EXCEPT !.pending_short = NoPending, !.skip = TRUE]
              ELSE Enter(m, c, i, "short", "OB_TREND_SELL",
                         compute_initial_stop_short(m.pending_short.ob_top, in.sr_line, c.close))
         ELSE [m EXCEPT !.pending_short = NoPending]
    ELSE [m EXCEPT !.pending_short = NoPending]

\* One raw event of "Process raw events (triggers)"
ProcessRawEvent(m, c, i, in, ev) ==
    LET ob_width == ev.ob_top - ev.ob_bottom
    IN IF ev.type \in {"bullish_boundary_crossed", "bullish_breaker_created"}
          /\ in.is_bull /\ ~m.position.open
       THEN IF in.vol_spike \/ (in.last_close > ev.ob_top /\ c.close > ev.ob_top)
            THEN IF BlockedLong(in, c.close, ob_width) THEN m
                 ELSE Enter(m, c, i, "long", "OB_TREND_BUY",
                            compute_initial_stop_long(ev.ob_bottom, in.sr_line, c.close))
            ELSE [m EXCEPT !.pending_long = PendingSignal(i, ev.ob_top, ev.ob_bottom)]
       ELSE IF ev.type \in {"bearish_boundary_crossed", "bearish_breaker_created"}
               /\ in.is_bear /\ ~m.position.open
       THEN IF in.vol_spike \/ (in.last_close < ev.ob_bottom /\ c.close < ev.ob_bottom)
            THEN IF BlockedShort(in, c.close, ob_width) THEN m
                 ELSE Enter(m, c, i, "short", "OB_TREND_SELL",
                            compute_initial_stop_short(ev.ob_top, in.sr_line, c.close))
            ELSE [m EXCEPT !.pending_short = PendingSignal(i, ev.ob_top, ev.ob_bottom)]
       ELSE m

RECURSIVE ProcessRawEvents(_, _, _, _, _)
ProcessRawEvents(m, c, i, in, k) ==
    IF k > Len(in.raw_events) THEN m
    ELSE ProcessRawEvents(ProcessRawEvent(m, c, i, in, in.raw_events[k]), c, i, in, k + 1)

\* _crossed_higher_level_long / _crossed_lower_level_short (0: None)
TrailLevels(in) == { in.sr_line, in.ob_level } \ {0}
SetMax(S) == CHOOSE x \in S : \A y \in S : y <= x
SetMin(S) == CHOOSE x \in S : \A y \in S : x <= y
crossed_higher_level_long(close, prev_low, levels, current_stop) ==
    LET crossed == { p \in levels : p > current_stop /\ prev_low < p /\ p <= close }
    IN IF crossed = {} THEN 0 ELSE SetMax(crossed)
crossed_lower_level_short(close, prev_high, levels, current_stop) ==
    LET crossed == { p \in levels : p < current_stop /\ prev_high > p /\ p >= close }
    IN IF crossed = {} THEN 0 ELSE SetMin(crossed)

\* `stop_segments[-1] = StopSegment(last.start_time, time_s, price, side)`
ExtendLast(segs, time_s, price) ==
    [segs EXCEPT ![Len(segs)] = StopSegment(segs[Len(segs)].start_time, time_s, price,
                                            segs[Len(segs)].side)]

\* trailing that moves the stop away from the crossed level, unguarded
TrailLongLoosening(m, c, in) ==
    LET time_s == TimeSec(c)
        segs == m.stop_segments
        crossed == crossed_higher_level_long(c.close, m.prev_candle.low, TrailLevels(in),
                                             m.position.stop_price)
        new_stop == m.position.stop_price - ((crossed - m.position.stop_price) \div 4)
        m1 == IF crossed # 0
              THEN [m EXCEPT
                      !.position.stop_price = new_stop,
                      !.stop_segments =
                          Append(ExtendLast(segs, time_s, segs[Len(segs)].price),
                                 StopSegment(time_s, time_s, new_stop, "long"))]
              ELSE [m EXCEPT !.stop_segments = ExtendLast(segs, time_s, m.position.stop_price)]
    IN IF c.low <= m1.position.stop_price THEN [m1 EXCEPT !.position = NoPosition] ELSE m1

\* "Trailing stop for active position", long
TrailLong(m, c, in) ==
    LET time_s == TimeSec(c)
        segs == m.stop_segments
        lastIsSide == segs # << >> /\ segs[Len(segs)].side = "long"
        crossed == crossed_higher_level_long(c.close, m.prev_candle.low, TrailLevels(in),
                                             m.position.stop_price)
        new_stop == crossed - ((3 * (crossed - m.position.stop_price)) \div 4)
        m1 == IF crossed # 0
              THEN IF new_stop > m.position.stop_price
                   THEN [m EXCEPT
                           !.position.stop_price = new_stop,
                           !.stop_segments =
                               Append(IF lastIsSide
                                      THEN ExtendLast(segs, time_s, segs[Len(segs)].price)
                                      ELSE segs,
                                      StopSegment(time_s, time_s, new_stop, "long"))]
                   ELSE m
              ELSE IF lastIsSide
                   THEN [m EXCEPT !.stop_segments =
                                      ExtendLast(segs, time_s, m.position.stop_price)]
                   ELSE m
    IN IF c.low <= m1.position.stop_price THEN [m1 EXCEPT !.position = NoPosition] ELSE m1

TrailShort(m, c, in) ==
    LET time_s == TimeSec(c)
        segs == m.stop_segments
        lastIsSide == segs # << >> /\ segs[Len(segs)].side = "short"
        crossed == crossed_lower_level_short(c.close, m.prev_candle.high, TrailLevels(in),
                                             m.position.stop_price)
        new_stop == crossed + ((3 * (m.position.stop_price - crossed)) \div 4)
        m1 == IF crossed # 0
              THEN IF new_stop < m.position.stop_price
                   THEN [m EXCEPT
                           !.position.stop_price = new_stop,
                           !.stop_segments =
                               Append(IF lastIsSide
                                      THEN ExtendLast(segs, time_s, segs[Len(segs)].price)
                                      ELSE segs,
                                      StopSegment(time_s, time_s, new_stop, "short"))]
                   ELSE m
              ELSE IF lastIsSide
                   THEN [m EXCEPT !.stop_segments =
                                      ExtendLast(segs, time_s, m.position.stop_price)]
                   ELSE m
    IN IF c.high >= m1.position.stop_price THEN [m1 EXCEPT !.position = NoPosition] ELSE m1

Trail(m, c, in) ==
    IF m.position.open /\ m.prev_candle # NoPrevCandle
    THEN IF m.position.side = "long" THEN TrailLong(m, c, in) ELSE TrailShort(m, c, in)
    ELSE m

\* The body of the loop for bar `i` with candle `c`: a `continue` of the
\* pending confirmation leaves the rest of the body out, `prev_candle = c`
\* included.  `skip` tells whether the body ended that way.
AfterPendingLong(m, c, i, in) ==
    IF m.skip THEN m ELSE ConfirmPendingShort(m, c, i, in)

AfterPending(m, c, i, in) ==
    IF m.skip THEN m
    ELSE [Trail(ProcessRawEvents(m, c, i, in, 1), c, in) EXCEPT !.prev_candle = c]

LoopBody(locals, c, i, in) ==
    AfterPending(
        AfterPendingLong(ConfirmPendingLong([locals EXCEPT !.skip = FALSE], c, i, in),
                         c, i, in),
        c, i, in)

\* The raw events of a bar: at most MaxTriggers of those the candle allows.
RawEventLists(c) ==
    { << >> } \cup { <<e>> : e \in RawEventsOf(c) }
    \cup (IF MaxTriggers >= 2
          THEN { <<e, f>> : e \in RawEventsOf(c), f \in RawEventsOf(c) }
          ELSE {})

\* The inputs that bar can have.  An input the bar does not read has its
\* default value.  The raw events and the volume test are read while no
\* position is open; is_bull (is_bear) for a pending long (short) signal or a
\* bullish (bearish) raw event; the blocking order block for an entry attempt;
\* the S/R line for an entry attempt or for trailing; the order-block level
\* for trailing, which needs a bar before; candles[i - 1].close is the close
\* of the bar before.
Bullish(raw_events) ==
    \E k \in 1..Len(raw_events) :
        raw_events[k].type \in {"bullish_boundary_crossed", "bullish_breaker_created"}
Bearish(raw_events) ==
    \E k \in 1..Len(raw_events) :
        raw_events[k].type \in {"bearish_boundary_crossed", "bearish_breaker_created"}
BarInputs(c) ==
    LET open == sm.position.open
        before == sbars # << >>
        closes == IF before THEN { sbars[Len(sbars)].close } ELSE Prices
    IN UNION {
         LET long_side == sm.pending_long.set \/ Bullish(raw_events)
             short_side == sm.pending_short.set \/ Bearish(raw_events)
             entering == long_side \/ short_side
         IN { BarInput(is_bull, is_bear, raw_events, vol_spike, ob_blocks, sr_line,
                       ob_level, last_close) :
                is_bull \in (IF long_side THEN BOOLEAN ELSE {TRUE}),
                is_bear \in (IF short_side THEN BOOLEAN ELSE {TRUE}),
                vol_spike \in (IF raw_events # << >> THEN BOOLEAN ELSE {FALSE}),
                ob_blocks \in (IF entering THEN BOOLEAN ELSE {FALSE}),
                sr_line \in (IF entering \/ (open /\ before) THEN {0} \cup Prices ELSE {0}),
                ob_level \in (IF (entering \/ open) /\ before THEN {0} \cup Prices ELSE {0}),
                last_close \in (IF ~before /\ raw_events = << >>
                                THEN {PriceUnit} ELSE closes) } :
         raw_events \in (IF open THEN { << >> } ELSE RawEventLists(c)) }

\* The loop takes the next bar of the window.
ProcessBar(c, in) ==
    /\ Len(sbars) < MaxStratBars
    /\ c.time = (Len(sbars) + 1) * MsPerSec
    /\ sm' = LoopBody(sm, c, Len(sbars) + 1, in)
    /\ sbars' = Append(sbars, c)
    /\ UNCHANGED <<hubVars, schedVars, journalVars, saveVars, tailVars>>

StratCandles(n) ==
    { c \in [time : {n * MsPerSec}, low : Prices, high : Prices, close : Prices] :
        c.low <= c.close /\ c.close <= c.high }

NextStrategy ==
    \E c \in StratCandles(Len(sbars) + 1) : \E in \in BarInputs(c) : ProcessBar(c, in)

SpecStrategy == Init /\ [][NextStrategy]_vars

\* C24: a bar that starts with a position open appends no TradeEvent (and so
\* opens no position).
C24_OnePositionAtATime ==
    [][ sm.position.open => sm'.events = sm.events ]_vars

\* C25: a pending signal that exists when a bar starts is gone when the bar
\* ends: what is pending then was created by that bar.
C25_PendingLastsOneBar ==
    [][ /\ sm.pending_long.set =>
             (sm'.pending_long.set => sm'.pending_long.bar_index = Len(sbars'))
        /\ sm.pending_short.set =>
             (sm'.pending_short.set => sm'.pending_short.bar_index = Len(sbars'))
      ]_vars

\* The last bar the loop has processed, after a step.
ThisBar == sbars'[Len(sbars')]

\* The step keeps the position it started with.
SamePosition ==
    /\ sm.position.open
    /\ sm'.position.open
    /\ sm'.position.entry_bar = sm.position.entry_bar
    /\ sm'.events = sm.events

\* The segment the entry of an event appended.
IsEntrySegment(seg, evs) ==
    \E k \in 1..Len(evs) :
        /\ evs[k].time = seg.start_time
        /\ evs[k].side = seg.side
        /\ evs[k].initial_stop_price = seg.price

Tighter(side, old, new) == IF side = "long" THEN new >= old ELSE new <= old

\* C26: the stop of a position never loosens: position.stop_price is
\* non-decreasing for a long and non-increasing for a short, no step changes
\* the price of a segment, and a segment appended by trailing is of the side
\* of the segment before it and at least as tight.
C26_StopMonotone ==
    [][ /\ SamePosition =>
              Tighter(sm.position.side, sm.position.stop_price, sm'.position.stop_price)
        /\ Len(sm'.stop_segments) >= Len(sm.stop_segments)
        /\ \A k \in 1..Len(sm.stop_segments) :
              sm'.stop_segments[k].price = sm.stop_segments[k].price
        /\ \A k \in (Len(sm.stop_segments) + 1)..Len(sm'.stop_segments) :
              IsEntrySegment(sm'.stop_segments[k], sm'.events)
              \/ /\ k > 1
                 /\ sm'.stop_segments[k].side = sm'.stop_segments[k - 1].side
                 /\ Tighter(sm'.stop_segments[k].side, sm'.stop_segments[k - 1].price,
                            sm'.stop_segments[k].price)
      ]_vars

\* C26 witness: an open long position whose stop was trailed twice.
C26_Witness ==
    /\ sm.position.open
    /\ sm.position.side = "long"
    /\ Len(sm.stop_segments) >= sm.position.first_segment + 2
    /\ \A k \in sm.position.first_segment..(Len(sm.stop_segments) - 1) :
          sm.stop_segments[k].price < sm.stop_segments[k + 1].price

\* C27: every stop segment has start_time <= end_time, and the segments of
\* the open position are contiguous from the entry bar to the last processed
\* bar: the first starts at the entry, consecutive ones share an endpoint,
\* the last ends at the last processed bar.
C27_SegmentsContinuous ==
    /\ \A k \in 1..Len(sm.stop_segments) :
          sm.stop_segments[k].start_time <= sm.stop_segments[k].end_time
    /\ sm.position.open =>
          LET segs == sm.stop_segments
              first == sm.position.first_segment
          IN /\ segs[first].start_time = sm.position.entry_bar
             /\ \A k \in first..(Len(segs) - 1) : segs[k].end_time = segs[k + 1].start_time
             /\ segs[Len(segs)].end_time = TimeSec(sbars[Len(sbars)])

\* C28: a position that is open when a bar starts and still open when the bar
\* ends was not touched by the bar: low > stop_price for a long, high <
\* stop_price for a short (the stop after the bar's trailing).
C28_ExitOnStop ==
    [][ SamePosition =>
          IF sm'.position.side = "long"
          THEN ThisBar.low > sm'.position.stop_price
          ELSE ThisBar.high < sm'.position.stop_price
      ]_vars

\* ============================================ the outcome simulator on its own
\* compute_trade_results (trade_log.py) is a pure function of the events, the
\* candles and the stop segments.  Here it is called on inputs built one
\* element at a time, with every field of its result.
MaxSimBars == 3             \* candles handed to the simulator (start times 1..MaxSimBars s)
MaxSimSegments == 2         \* stop segments handed to it
SimLows == {1, 2}           \* the lows a candle may have
SimHighs == {3, 4}          \* the highs a candle may have
SimSides == {"long", "short", ""}

\* A candle with the fields the simulator reads; its close lies between its
\* low and its high.
SimCandle(sec, low, high) ==
    [time |-> sec * MsPerSec, low |-> low, high |-> high, close |-> low + 1]

\* The stops and targets of an event: below the entry for a long stop, above
\* for a short one; target_price 0 is None.
SimStops(side) == IF side = "short" THEN SimHighs ELSE SimLows
SimTargets(side) == IF side = "short" THEN {0, 1} ELSE {0, 4}

\* A trade event entered at the bar with 0-based index bar_index.
SimEvent(bar_index, side, stop, target) ==
    [TradeEvent(bar_index + 1, bar_index,
                IF side = "short" THEN "OB_TREND_SELL" ELSE "OB_TREND_BUY",
                side, stop) EXCEPT !.target_price = target]

\* The bar (1-based) at which the `for i in range(entry_bar_index + 1, ...)`
\* loop breaks, looking from bar `i` on; 0 when it runs to the end.
RECURSIVE CloseBarFrom(_, _, _, _)
CloseBarFrom(ev, candles, segments, i) ==
    IF i > Len(candles) THEN 0
    ELSE LET bar == candles[i]
             stop_price == get_stop_price_for_bar(to_seconds(bar.time), ev.side,
                                                  ev.initial_stop_price, segments)
             stop_hit == IF ev.side = "long" THEN bar.low <= stop_price
                         ELSE bar.high >= stop_price
             tp_hit == ev.target_price # 0 /\
                       (IF ev.side = "long" THEN bar.high >= ev.target_price
                        ELSE bar.low <= ev.target_price)
         IN IF stop_hit \/ tp_hit THEN i
            ELSE CloseBarFrom(ev, candles, segments, i + 1)

\* One element of the list compute_trade_results returns (closeBarIndex is
\* 0-based, as in the code).
SimResult(tradeId, closePrice, closeBarIndex, closeTime, closeReason, points) ==
    [tradeId |-> tradeId, closePrice |-> closePrice, closeBarIndex |-> closeBarIndex,
     closeTime |-> closeTime, closeReason |-> closeReason, points |-> points]

\* The body of `for ev in events` for an event that is not skipped.
ResultOf(ev, candles, segments) ==
    LET entry == ev.bar_index + 1
        entry_price == candles[entry].close
        close_reason == CloseReasonFrom(ev, candles, segments, entry + 1)
        close_bar == IF close_reason # "end_of_data"
                     THEN CloseBarFrom(ev, candles, segments, entry + 1)
                     ELSE IF ev.bar_index < Len(candles) - 1 THEN Len(candles)
                     ELSE entry
        close_price == candles[close_bar].close
    IN SimResult(TradeId(ev.time), close_price, close_bar - 1,
                 to_seconds(candles[close_bar].time), close_reason,
                 IF ev.side = "long" THEN close_price - entry_price
                 ELSE entry_price - close_price)

\* compute_trade_results with every field of the results.
RECURSIVE ComputeTradeResults(_, _, _, _)
ComputeTradeResults(events, candles, segments, k) ==
    IF k > Len(events) THEN << >>
    ELSE LET ev == events[k]
             rest == ComputeTradeResults(events, candles, segments, k + 1)
         IN IF ev.side \notin {"long", "short"} THEN rest
            ELSE IF ev.bar_index < 0 \/ ev.bar_index >= Len(candles) THEN rest
            ELSE << ResultOf(ev, candles, segments) >> \o rest

\* The caller has one more candle in its window.
SimAddCandle(low, high) ==
    /\ ~simResults.called
    /\ Len(simCandles) < MaxSimBars
    /\ simCandles' = Append(simCandles, SimCandle(Len(simCandles) + 1, low, high))
    /\ UNCHANGED <<simEvents, simSegments, simResults>>
    /\ UNCHANGED <<hubVars, schedVars, journalVars, saveVars, stratVars, payVars, lateVars>>

\* The caller has a trade event.
SimAddEvent(bar_index, side, stop, target) ==
    /\ ~simResults.called
    /\ simEvents = << >>
    /\ simEvents' = << SimEvent(bar_index, side, stop, target) >>
    /\ UNCHANGED <<simCandles, simSegments, simResults>>
    /\ UNCHANGED <<hubVars, schedVars, journalVars, saveVars, stratVars, payVars, lateVars>>

\* The caller has one more stop segment.
SimAddSegment(side, start_time, end_time, price) ==
    /\ ~simResults.called
    /\ Len(simSegments) < MaxSimSegments
    /\ simSegments' = Append(simSegments, StopSegment(start_time, end_time, price, side))
    /\ UNCHANGED <<simCandles, simEvents, simResults>>
    /\ UNCHANGED <<hubVars, schedVars, journalVars, saveVars, stratVars, payVars, lateVars>>

\* results = compute_trade_results(events, candles, stop_segments)
SimCall ==
    /\ ~simResults.called
    /\ simResults' = [called |-> TRUE,
                      results |-> ComputeTradeResults(simEvents, simCandles, simSegments, 1)]
    /\ UNCHANGED <<simCandles, simEvents, simSegments>>
    /\ UNCHANGED <<hubVars, schedVars, journalVars, saveVars, stratVars, payVars, lateVars>>

NextSim ==
    \/ \E low \in SimLows, high \in SimHighs : SimAddCandle(low, high)
    \/ \E bar_index \in 0..(MaxSimBars - 1), side \in SimSides :
          \E stop \in SimStops(side), target \in SimTargets(side) :
             SimAddEvent(bar_index, side, stop, target)
    \/ \E side \in {"long", "short"}, start_time \in 1..MaxSimBars :
          \E end_time \in start_time..MaxSimBars, price \in SimStops(side) :
             SimAddSegment(side, start_time, end_time, price)
    \/ SimCall

SpecSim == Init /\ [][NextSim]_vars

\* The event the simulator was called with, when it was not skipped.
SimulatedEvent ==
    /\ simResults.called
    /\ Len(simEvents) = 1
    /\ simEvents[1].side \in {"long", "short"}
    /\ simEvents[1].bar_index < Len(simCandles)

\* The bars after the entry bar (1-based) that reach the effective stop of
\* the event, and those that reach its target.
StopBars ==
    LET ev == simEvents[1]
    IN { i \in (ev.bar_index + 2)..Len(simCandles) :
           LET stop_at == get_stop_price_for_bar(to_seconds(simCandles[i].time), ev.side,
                                                 ev.initial_stop_price, simSegments)
           IN IF ev.side = "long" THEN simCandles[i].low <= stop_at
              ELSE simCandles[i].high >= stop_at }
TargetBars ==
    LET ev == simEvents[1]
    IN { i \in (ev.bar_index + 2)..Len(simCandles) :
           /\ ev.target_price # 0
           /\ IF ev.side = "long" THEN simCandles[i].high >= ev.target_price
              ELSE simCandles[i].low <= ev.target_price }

\* C29: for an event that is simulated, a bar after the entry that reaches the
\* effective stop gives closeReason stop at the first such bar unless an
\* earlier bar reached the target; a bar that reaches the target gives
\* take_profit at the first such bar unless a bar up to it reached the stop
\* (the stop wins on the same bar); with no such bar the reason is end_of_data
\* and the close is the last bar's.
C29_SimulatorSound ==
    SimulatedEvent =>
       LET r == simResults.results[1]
           n == Len(simCandles)
       IN /\ Len(simResults.results) = 1
          /\ (StopBars # {} /\ \A j \in TargetBars : j >= SetMin(StopBars)) =>
                /\ r.closeReason = "stop"
                /\ r.closeBarIndex = SetMin(StopBars) - 1
          /\ (TargetBars # {} /\ \A j \in StopBars : j > SetMin(TargetBars)) =>
                /\ r.closeReason = "take_profit"
                /\ r.closeBarIndex = SetMin(TargetBars) - 1
          /\ (StopBars = {} /\ TargetBars = {}) =>
                /\ r.closeReason = "end_of_data"
                /\ r.closeBarIndex = n - 1
                /\ r.closePrice = simCandles[n].close
                /\ r.closeTime = TimeSec(simCandles[n])

\* A long event whose stop and target are reached on the same bar, the first
\* bar to reach either, after a bar that reached neither.
C29_Witness ==
    /\ SimulatedEvent
    /\ simEvents[1].side = "long"
    /\ simEvents[1].bar_index = 0
    /\ StopBars = {3}
    /\ TargetBars = {3}
    /\ simSegments # << >>
    /\ simResults.results[1].closeReason = "stop"

\* ======================================================= the payload builders
\* _make_snapshot_payload and _make_upsert_payload (candle_stream.py) for one
\* key.  The indicators are inputs: whether build_volume_profile_from_candles
\* returns a profile is chosen freely.  What is kept of a payload is its
\* event, the keys of its graphics, and what building it did.
MaxApplied == 5             \* no payload is built once this many calls have journaled
Modes == {"simulation", "trading"}
Markers == {"off", "simulation", "trade"}

\* The graphics of a payload built over a non-empty window: its keys, whether
\* the strategy was run, and whether _apply_trade_logging passed its test of
\* settings.mode.
Graphics(markers, vp, smode) ==
    LET ran == vp /\ markers \in {"simulation", "trade"}
        journaled == ran /\ smode = "trading"
        stripped == ran /\ smode = "trading"
    IN [keys |-> {"orderBlocks", "smartMoney"}
                 \cup (IF vp THEN {"volumeProfile", "supportResistance"} ELSE {})
                 \cup (IF ran /\ ~stripped THEN {"strategySignals"} ELSE {}),
        ran |-> ran, journaled |-> journaled]

\* The payload of either builder: without candles it has no graphics.
BuildPayload(event, candles, markers, vp, smode) ==
    LET g == Graphics(markers, vp, smode)
    IN IF candles
       THEN [built |-> TRUE, event |-> event, markers |-> markers,
             keys |-> g.keys \cup {"graphics"}, ran |-> g.ran, journaled |-> g.journaled]
       ELSE [built |-> TRUE, event |-> event, markers |-> markers,
             keys |-> {}, ran |-> FALSE, journaled |-> FALSE]
make_snapshot_payload(candles, markers, vp, smode) ==
    BuildPayload("snapshot", candles, markers, vp, smode)
make_upsert_payload(candles, markers, vp, smode) ==
    BuildPayload("upsert", candles, markers, vp, smode)

\* The number of journaling calls after a payload was built.
Applied(p) == IF p.journaled THEN applied + 1 ELSE applied

\* Settings(): the environment is read once, when the process starts.
ReadEnvironment(smode) ==
    /\ settingsMode = "unread"
    /\ settingsMode' = smode
    /\ UNCHANGED <<keyMarkers, keyCandles, outPayload, applied>>
    /\ UNCHANGED <<hubVars, schedVars, journalVars, saveVars, stratVars, simVars, lateVars>>

\* subscribe: store strategy_markers; build a snapshot when the window has
\* candles.
PaySubscribe(markers, vp) ==
    /\ settingsMode \in Modes
    /\ applied < MaxApplied
    /\ keyMarkers' = markers
    /\ IF keyCandles
       THEN LET p == make_snapshot_payload(TRUE, markers, vp, settingsMode)
            IN outPayload' = p /\ applied' = Applied(p)
       ELSE UNCHANGED <<outPayload, applied>>
    /\ UNCHANGED <<settingsMode, keyCandles>>
    /\ UNCHANGED <<hubVars, schedVars, journalVars, saveVars, stratVars, simVars, lateVars>>

\* _run_stream after a REST fetch: the window is replaced (it may come back
\* empty) and a snapshot is built.
PaySnapshot(candles, vp) ==
    /\ settingsMode \in Modes
    /\ applied < MaxApplied
    /\ keyCandles' = candles
    /\ LET p == make_snapshot_payload(candles, keyMarkers, vp, settingsMode)
       IN outPayload' = p /\ applied' = Applied(p)
    /\ UNCHANGED <<settingsMode, keyMarkers>>
    /\ UNCHANGED <<hubVars, schedVars, journalVars, saveVars, stratVars, simVars, lateVars>>

\* _run_stream on a bar of the feed: the bar is merged into the window and an
\* upsert is built.
PayUpsert(vp) ==
    /\ settingsMode \in Modes
    /\ applied < MaxApplied
    /\ keyCandles' = TRUE
    /\ LET p == make_upsert_payload(TRUE, keyMarkers, vp, settingsMode)
       IN outPayload' = p /\ applied' = Applied(p)
    /\ UNCHANGED <<settingsMode, keyMarkers>>
    /\ UNCHANGED <<hubVars, schedVars, journalVars, saveVars, stratVars, simVars, lateVars>>

NextPayload ==
    \/ \E smode \in Modes : ReadEnvironment(smode)
    \/ \E markers \in Markers, vp \in BOOLEAN : PaySubscribe(markers, vp)
    \/ \E candles \in BOOLEAN, vp \in BOOLEAN : PaySnapshot(candles, vp)
    \/ \E vp \in BOOLEAN : PayUpsert(vp)

SpecPayload == Init /\ [][NextPayload]_vars

\* C30: a payload built for a key with strategy_markers simulation carries
\* strategySignals when it has a volume profile and building it journaled
\* nothing; with trade, building it applied the journal whenever the
\* strategy ran and it carries no strategySignals; with off, the strategy
\* was not run, nothing was journaled and there is no strategySignals.
C30_PayloadGating ==
    outPayload.built =>
       /\ outPayload.markers = "simulation" =>
             /\ "volumeProfile" \in outPayload.keys => "strategySignals" \in outPayload.keys
             /\ ~outPayload.journaled
       /\ outPayload.markers = "trade" =>
             /\ outPayload.ran => outPayload.journaled
             /\ "strategySignals" \notin outPayload.keys
       /\ outPayload.markers = "off" =>
             /\ ~outPayload.ran
             /\ ~outPayload.journaled
             /\ "strategySignals" \notin outPayload.keys

\* ------------------------------------------------ more claims on the strategy
\* The entry price of a trade event: `entry = c.close` of the bar it was
\* emitted on.
EntryPrice(ev) == sbars[ev.bar_index].close

\* C39: every entry has its initial stop on the loss side of its entry price:
\* below the entry for a long, above it for a short.
C39_StopOnLossSide ==
    \A k \in 1..Len(sm.events) :
        IF sm.events[k].side = "long"
        THEN sm.events[k].initial_stop_price < EntryPrice(sm.events[k])
        ELSE sm.events[k].initial_stop_price > EntryPrice(sm.events[k])

\* ------------------------------------ the strategy with two order blocks apart
\* The same loop over a window with a bullish order block below a bearish
\* one and room between them, so that one bar can raise an event of each and
\* a later bar can close between the two.  The raw events of a bar are
\* computed from its candle as _iter_order_blocks_with_events does.
MaxPairBars == 2            \* bars the loop processes in this view
PairPrices == { k * PriceUnit : k \in 1..6 }
LowBlock == << 2 * PriceUnit, PriceUnit >>          \* the bullish block (top, bottom)
HighBlock == << 5 * PriceUnit, 4 * PriceUnit >>     \* the bearish block (top, bottom)

\* A candle without wicks: its low and high are those of its body.
PairCandle(n, open, close) ==
    [time |-> n * MsPerSec, open |-> open, close |-> close,
     low |-> Min2(open, close), high |-> Max2(open, close)]

\* The marking loop over one bullish block that is not a breaker yet.
BullishEventsOf(c, zone) ==
    IF Min2(c.close, c.open) < zone[2]
    THEN << RawEvent("bullish_breaker_created", zone) >>
    ELSE IF c.low <= zone[1] /\ c.close > zone[1] /\ c.close > c.open
    THEN << RawEvent("bullish_boundary_crossed", zone) >>
    ELSE << >>

\* The marking loop over one bearish block that is not a breaker yet.
BearishEventsOf(c, zone) ==
    IF Max2(c.close, c.open) > zone[1]
    THEN << RawEvent("bearish_breaker_created", zone) >>
    ELSE IF c.high >= zone[2] /\ c.close < zone[2] /\ c.close < c.open
    THEN << RawEvent("bearish_boundary_crossed", zone) >>
    ELSE << >>

\* events_this_bar: the bullish blocks first, then the bearish ones.
\* has_bull (has_bear): the block is in the list and is not a breaker.
EventsThisBar(c, has_bull, has_bear) ==
    (IF has_bull THEN BullishEventsOf(c, LowBlock) ELSE << >>)
    \o (IF has_bear THEN BearishEventsOf(c, HighBlock) ELSE << >>)

\* The inputs of a bar of this view: no S/R line and no level to trail to.
\* An input the bar does not read has its default value, as in BarInputs.
PairInputs(c) ==
    LET open == sm.position.open
        closes == IF sbars # << >> THEN { sbars[Len(sbars)].close } ELSE PairPrices
    IN UNION {
         LET long_side == sm.pending_long.set \/ Bullish(raw_events)
             short_side == sm.pending_short.set \/ Bearish(raw_events)
         IN { BarInput(is_bull, is_bear, raw_events, vol_spike, ob_blocks, 0, 0, last_close) :
                is_bull \in (IF long_side THEN BOOLEAN ELSE {TRUE}),
                is_bear \in (IF short_side THEN BOOLEAN ELSE {TRUE}),
                vol_spike \in (IF raw_events # << >> THEN BOOLEAN ELSE {FALSE}),
                ob_blocks \in (IF long_side \/ short_side THEN BOOLEAN ELSE {FALSE}),
                last_close \in (IF sbars = << >> /\ raw_events = << >>
                                THEN {PriceUnit} ELSE closes) } :
         raw_events \in (IF open THEN { << >> }
                         ELSE { EventsThisBar(c, has_bull, has_bear) :
                                  has_bull \in BOOLEAN, has_bear \in BOOLEAN }) }

\* The loop takes the next bar of this window.
ProcessPairBar(c, in) ==
    /\ Len(sbars) < MaxPairBars
    /\ c.time = (Len(sbars) + 1) * MsPerSec
    /\ sm' = LoopBody(sm, c, Len(sbars) + 1, in)
    /\ sbars' = Append(sbars, c)
    /\ UNCHANGED <<hubVars, schedVars, journalVars, saveVars, tailVars>>

NextStrategyPair ==
    \E open \in PairPrices, close \in PairPrices :
       \E in \in PairInputs(PairCandle(Len(sbars) + 1, open, close)) :
          ProcessPairBar(PairCandle(Len(sbars) + 1, open, close), in)

SpecStrategyPair == Init /\ [][NextStrategyPair]_vars

\* C31: no two trade events of a run have the same time.
C31_TradeIdsUnique ==
    \A j \in 1..Len(sm.events) : \A k \in 1..Len(sm.events) :
        sm.events[j].time = sm.events[k].time => j = k

\* ------------------------------------------------- more claims on the journal
\* A recompute over the window of the recompute before it, by the same
\* CandleStreamState.
RepeatedRecompute ==
    /\ jhist.op \in {"bar", "same"}
    /\ jhist'.op = "same"

\* C37: a recompute over the same window as the recompute before it, in the
\* same state's lifetime, appends no record to index.jsonl and leaves
\* current.json as it is.
C37_SameWindowIdempotent ==
    [][ RepeatedRecompute => (index' = index /\ current' = current) ]_vars

\* ============================== the stream task's updates with the journal
\* _run_stream (candle_stream.py) for one key in trading mode, one step per
\* update: the REST fetch and its snapshot, a bar and its upsert, the resync
\* after a rollover.  Each update calls _apply_trade_logging while its payload
\* is built; an exception leaves the payload unbuilt and is caught by
\* `except Exception`, which sleeps and starts over with the REST fetch.
\* No subscriber leaves in this view.
Raises(cs, out, budget) ==
    apply_trade_logging(Machine(index, current, js, budget), out, cs).raised

\* The task that ends on an exception.
AfterUpdateStops(u, raised, next_pc) ==
    [pc |-> IF raised THEN "done" ELSE next_pc,
     subscribed |-> u.subscribed,
     broadcast |-> TRUE,
     raised |-> raised,
     retried |-> u.retried \/ (u.raised /\ ~raised)]

\* The task after an update: `await self._broadcast(...)` and on, or the
\* handler of `except Exception`.
AfterUpdate(u, raised, next_pc) ==
    [pc |-> IF raised THEN "sleep" ELSE next_pc,
     subscribed |-> u.subscribed,
     broadcast |-> ~raised,
     raised |-> raised,
     retried |-> u.retried \/ (u.raised /\ ~raised)]

\* get_klines returned the window that is cached; its snapshot is built.
UpdateRestSame(budget) ==
    /\ upd.pc \in {"rest", "resync"}
    /\ Len(index) < MaxRecords
    /\ jcandles # << >>
    /\ Recompute(jcandles, strat, budget, "same")
    /\ upd' = AfterUpdate(upd, Raises(jcandles, strat, budget), "ws")
    /\ UNCHANGED <<hubVars, schedVars, saveVars, stratVars, simVars, payVars, lateButUpd>>

\* get_klines returned a window with one more bar; its snapshot is built.
UpdateRestNew(low, budget) ==
    /\ upd.pc \in {"rest", "resync"}
    /\ Len(index) < MaxRecords
    /\ NextBarTime <= MaxBars
    /\ LET cs == Truncate(Append(jcandles, OhlcCandle(NextBarTime, low)), JournalLimit)
       IN \E out \in StrategyOutputs(cs) :
             /\ Recompute(cs, out, budget, "bar")
             /\ upd' = AfterUpdate(upd, Raises(cs, out, budget), "ws")
    /\ UNCHANGED <<hubVars, schedVars, saveVars, stratVars, simVars, payVars, lateButUpd>>

\* A bar of the feed rolls the window over; its upsert is built and the
\* resync follows.
UpdateBar(low, budget) ==
    /\ upd.pc = "ws"
    /\ Len(index) < MaxRecords
    /\ jcandles # << >>
    /\ NextBarTime <= MaxBars
    /\ LET cs == Truncate(Append(jcandles, OhlcCandle(NextBarTime, low)), JournalLimit)
       IN \E out \in StrategyOutputs(cs) :
             /\ Recompute(cs, out, budget, "bar")
             /\ upd' = AfterUpdate(upd, Raises(cs, out, budget), "resync")
    /\ UNCHANGED <<hubVars, schedVars, saveVars, stratVars, simVars, payVars, lateButUpd>>

\* `await asyncio.sleep(2)` is over: back to `while True`.
UpdateBackoff ==
    /\ upd.pc = "sleep"
    /\ upd' = [upd EXCEPT !.pc = "rest"]
    /\ UNCHANGED <<hubVars, schedVars, journalVars, saveVars, stratVars, simVars, payVars, lateButUpd>>

NextUpdate ==
    \/ \E budget \in Budgets : UpdateRestSame(budget)
    \/ \E low \in LowPrices, budget \in Budgets : UpdateRestNew(low, budget)
    \/ \E low \in LowPrices, budget \in Budgets : UpdateBar(low, budget)
    \/ UpdateBackoff

SpecUpdate == Init /\ [][NextUpdate]_vars

\* The price of the last stop segment of the strategy's output that the
\* stop-move loop matches with event k: the segments of its side that start
\* at or after it and before the next event of that side.
LastSegmentOf(k) ==
    LET ev == strat.events[k]
        mine == { i \in 1..Len(strat.segments) :
                    /\ strat.segments[i].side = ev.side
                    /\ strat.segments[i].start_time >= ev.time
                    /\ \A j \in 1..Len(strat.events) :
                          (strat.events[j].side = ev.side /\ strat.events[j].time > ev.time)
                             => strat.segments[i].start_time < strat.events[j].time }
    IN IF mine = {} THEN 0 ELSE SetMax(mine)

\* Nothing of the strategy's output is left to journal: every event has its
\* entry record and is known as logged, its recorded stop is that of its
\* last segment, and every trade the simulator closes has its exit record.
NothingPending ==
    LET results == compute_trade_results(strat.events, jcandles, strat.segments, 1)
    IN /\ \A k \in 1..Len(strat.events) :
             LET tid == TradeId(strat.events[k].time)
             IN /\ tid \in js.logged_entry_ids
                /\ \E j \in 1..Len(index) : IsRecord(index[j], "entry", tid)
                /\ LastSegmentOf(k) # 0 =>
                      /\ tid \in DOMAIN js.last_stop_price_per_trade
                      /\ js.last_stop_price_per_trade[tid] = strat.segments[LastSegmentOf(k)].price
       /\ \A k \in 1..Len(results) :
             results[k].closeReason # "end_of_data" =>
                /\ results[k].tradeId \in js.logged_exit_ids
                /\ \E j \in 1..Len(index) : IsRecord(index[j], "exit", results[k].tradeId)

MaxVolumeBars == 5
VolLookback == 3
Volumes == 1..3

RECURSIVE SumVolumes(_, _, _)
\* sum(candles[i].volume for i in range(start, end)), 0-based.
SumVolumes(volumes, start, end) ==
    IF start >= end THEN 0
    ELSE volumes[start + 1] + SumVolumes(volumes, start + 1, end)

SameQuotient(a, b) == a[1] * b[2] = b[1] * a[2]

\* _volume_average: the mean of candles[start:end], up_to given.
volume_average(volumes, lookback, up_to) ==
    LET end == up_to
        start == IF end - lookback > 0 THEN end - lookback ELSE 0
    IN IF start >= end THEN <<0, 1>> ELSE <<SumVolumes(volumes, start, end), end - start>>

\* One more candle of the window the strategy is given.
VolAddCandle(v) ==
    /\ ~volv.called
    /\ Len(volv.volumes) < MaxVolumeBars
    /\ volv' = [volv EXCEPT !.volumes = Append(@, v)]
    /\ UNCHANGED <<hubVars, schedVars, journalVars, saveVars, stratVars, simVars, payVars, lateButVol>>

\* The loop's bar i: `vol_avg = _volume_average(candles, vol_lookback, i + 1)`.
VolBar(i) ==
    /\ i < Len(volv.volumes)
    /\ i >= (IF volv.called THEN volv.up_to ELSE 0)
    /\ volv' = [volv EXCEPT !.up_to = i + 1,
                            !.vol_avg = volume_average(volv.volumes, VolLookback, i + 1),
                            !.called = TRUE]
    /\ UNCHANGED <<hubVars, schedVars, journalVars, saveVars, stratVars, simVars, payVars, lateButVol>>

NextVolume ==
    \/ \E v \in Volumes : VolAddCandle(v)
    \/ \E i \in 0..(MaxVolumeBars - 1) : VolBar(i)

SpecVolume == Init /\ [][NextVolume]_vars

\* The mean volume of the bars before bar i, at most lookback of them.
MeanBefore(volumes, lookback, i) ==
    LET start == IF i - lookback > 0 THEN i - lookback ELSE 0
    IN <<SumVolumes(volumes, start, i), i - start>>

\* C36: on a bar i that has bars before it, the volume average the spike test
\* uses is the mean volume of the VolLookback bars before bar i (of all of
\* them when there are fewer), bar i itself not among them.
C36_AverageExcludesCurrent ==
    (volv.called /\ volv.up_to >= 2) =>
        SameQuotient(volv.vol_avg, MeanBefore(volv.volumes, VolLookback, volv.up_to - 1))

\* ============================== the strategy and the outcome simulator
\* compute_trade_results on what the strategy has produced for the bars it
\* has processed.  The strategy's events count bars from 0, the bars of this
\* model from 1.
LastTradeResult ==
    LET ev == sm'.events[Len(sm'.events)]
    IN ResultOf([ev EXCEPT !.bar_index = @ - 1], sbars', sm'.stop_segments)

\* The step closes the position of the last trade: one that was open, or one
\* the bar itself entered.
ClosesPosition ==
    /\ ~sm'.position.open
    /\ sm.position.open \/ Len(sm'.events) > Len(sm.events)

\* C38: after every bar, the simulator run on the bars so far and the
\* strategy's segments agrees with the strategy on the last trade: it reports
\* end_of_data when the position is still open, and a stop exit on this very
\* bar when the bar closed the position.
C38_SimulatorAgrees ==
    [][ sm'.events # << >> =>
          /\ sm'.position.open => LastTradeResult.closeReason = "end_of_data"
          /\ ClosesPosition =>
                /\ LastTradeResult.closeReason = "stop"
                /\ LastTradeResult.closeBarIndex + 1 = Len(sbars')
      ]_vars

\* ============================== subscribe raising under the lock
\* CandleStreamHub.subscribe when _make_snapshot_payload raises: the queue was
\* added to state.queues before, the exception leaves `async with self._lock`
\* and the rest of subscribe is skipped.  stream_candles (api/market.py) calls
\* subscribe before its try/finally, so its handler ends without unsubscribe:
\* the queue's connection is "failed" and nobody holds the queue.
SubscribeFails(key) ==
    \E q \in QueueIds :
      /\ FreshQueue(q)
      /\ ~StateIsNone(key)
      /\ HasCachedSnapshot(streams[key])
      /\ streams' = StoreState(key, [streams[key] EXCEPT !.queues = @ \cup {q}])
      /\ conn' = [conn EXCEPT ![q] = "failed"]
      /\ UNCHANGED <<tasks, taken>>
      /\ NoEmit
      /\ last' = OtherStep
      /\ UNCHANGED extVars

\* The `finally` of a handler whose subscribe returned.
HandlerUnsubscribe(key, q) ==
    /\ conn[q] # "failed"
    /\ Unsubscribe(key, q)

NextSubFail ==
    \/ \E key \in Keys : Subscribe(key)
    \/ \E key \in Keys : SubscribeFails(key)
    \/ \E key \in Keys, q \in QueueIds : HandlerUnsubscribe(key, q)
    \/ \E q \in QueueIds : ConsumerGet(q)
    \/ \E t \in TaskIds, cs \in get_klines(SnapshotLimit) : TaskRestResult(t, cs)
    \/ \E t \in TaskIds, bar \in stream_kline : TaskBar(t, bar)
    \/ \E t \in TaskIds, cs \in get_klines(SnapshotLimit) : TaskResyncResult(t, cs)
    \/ \E t \in TaskIds : TaskError(t)
    \/ \E t \in TaskIds : TaskSleepDone(t)
    \/ \E t \in TaskIds : TaskStreamEnd(t)
    \/ \E t \in TaskIds : TaskCancelled(t)

SpecSubFail == Init /\ [][NextSubFail]_vars

\* C40: a subscribe that raised leaves no queue registered: every queue of
\* every key belongs to a handler between its subscribe and its unsubscribe,
\* and when the last of them has unsubscribed no StreamState is left and no
\* task is left uncancelled.
C40_FailedSubscribeLeavesNothing ==
    /\ \A key \in Keys : QueuesOf(streams, key) \subseteq Subscribers
    /\ Subscribers = {} =>
          /\ \A key \in Keys : StateIsNone(key)
          /\ \A t \in TaskIds : ~Live(t)

\* ============================== order blocks: breakers and boundary crosses
\* The marking loops of _iter_order_blocks_with_events (order_blocks.py), one
\* step per bar i, with keep_breakers at its default True.  The swing
\* detection that forms blocks is an input: a bar may put one new bullish and
\* one new bearish block at the front of its list, located at an earlier bar.
\* `created` is the history of the *_breaker_created events of the window.
MaxObBars == 3
SwingLength == 1
ObPrices == 1..6
ObTop == 4
ObBottom == 3

OrderBlock(top, bottom, loc, breaker, break_loc) ==
    [top |-> top, bottom |-> bottom, loc |-> loc, breaker |-> breaker, break_loc |-> break_loc]

\* The candles of a bar: wicks of at most one price step beyond the body.
ObCandles ==
    { c \in [open : ObPrices, high : ObPrices, low : ObPrices, close : ObPrices] :
        /\ c.low \in {Min(c.open, c.close), Min(c.open, c.close) - 1}
        /\ c.high \in {Max(c.open, c.close), Max(c.open, c.close) + 1} }

ObEvent(type, ob) == [type |-> type, ob_top |-> ob.top, ob_bottom |-> ob.bottom, ob_loc |-> ob.loc]

\* The body of `for ob in list(bullish_ob)` that tests the breaker flag no more.
MarkBullishAgain(ob, c, i) ==
    IF ob.loc < i
    THEN IF Min(c.close, c.open) < ob.bottom
         THEN [ob |-> [ob EXCEPT !.breaker = TRUE, !.break_loc = i],
               events |-> << ObEvent("bullish_breaker_created", ob) >>]
         ELSE IF c.low <= ob.top /\ c.close > ob.top /\ c.close > c.open
         THEN [ob |-> ob, events |-> << ObEvent("bullish_boundary_crossed", ob) >>]
         ELSE [ob |-> ob, events |-> << >>]
    ELSE [ob |-> ob, events |-> << >>]

\* The body of `for ob in list(bullish_ob)`.
MarkBullish(ob, c, i) ==
    IF ~ob.breaker /\ ob.loc < i
    THEN IF Min(c.close, c.open) < ob.bottom
         THEN [ob |-> [ob EXCEPT !.breaker = TRUE, !.break_loc = i],
               events |-> << ObEvent("bullish_breaker_created", ob) >>]
         ELSE IF c.low <= ob.top /\ c.close > ob.top /\ c.close > c.open
         THEN [ob |-> ob, events |-> << ObEvent("bullish_boundary_crossed", ob) >>]
         ELSE [ob |-> ob, events |-> << >>]
    ELSE [ob |-> ob, events |-> << >>]

\* The body of `for ob in list(bearish_ob)`.
MarkBearish(ob, c, i) ==
    IF ~ob.breaker /\ ob.loc < i
    THEN IF Max(c.close, c.open) > ob.top
         THEN [ob |-> [ob EXCEPT !.breaker = TRUE, !.break_loc = i],
               events |-> << ObEvent("bearish_breaker_created", ob) >>]
         ELSE IF c.high >= ob.bottom /\ c.close < ob.bottom /\ c.close < c.open
         THEN [ob |-> ob, events |-> << ObEvent("bearish_boundary_crossed", ob) >>]
         ELSE [ob |-> ob, events |-> << >>]
    ELSE [ob |-> ob, events |-> << >>]

RECURSIVE EventsOfMarks(_, _)
EventsOfMarks(marks, k) ==
    IF k > Len(marks) THEN << >> ELSE marks[k].events \o EventsOfMarks(marks, k + 1)

IsBreakerCreated(ev) == ev.type \in {"bullish_breaker_created", "bearish_breaker_created"}

\* One iteration of `for i in range(swing_length + 1, n)` from the marking of
\* the blocks on, the lists as the formation left them.
ObBar(c, new_bull, new_bear) ==
    /\ LET i == IF obv.i = 0 THEN SwingLength + 1 ELSE obv.i + 1
           formed(new) == IF new THEN << OrderBlock(ObTop, ObBottom, i - 1, FALSE, None) >>
                          ELSE << >>
           bull0 == formed(new_bull) \o obv.bullish_ob
           bear0 == formed(new_bear) \o obv.bearish_ob
           bull == [k \in 1..Len(bull0) |-> MarkBullish(bull0[k], c, i)]
           bear == [k \in 1..Len(bear0) |-> MarkBearish(bear0[k], c, i)]
           events == EventsOfMarks(bull, 1) \o EventsOfMarks(bear, 1)
       IN /\ i <= SwingLength + MaxObBars
          /\ obv' = [i |-> i,
                     bullish_ob |-> [k \in 1..Len(bull) |-> bull[k].ob],
                     bearish_ob |-> [k \in 1..Len(bear) |-> bear[k].ob],
                     c |-> c,
                     events_this_bar |-> events,
                     created |-> obv.created \o SelectSeq(events, IsBreakerCreated)]
    /\ UNCHANGED <<hubVars, schedVars, journalVars, saveVars, stratVars, simVars, payVars, lateButBlocks>>

NextBlocks ==
    \E c \in ObCandles, new_bull \in BOOLEAN, new_bear \in BOOLEAN : ObBar(c, new_bull, new_bear)

SpecBlocks == Init /\ [][NextBlocks]_vars

Emitted(type, ob) ==
    \E k \in 1..Len(obv.events_this_bar) : obv.events_this_bar[k] = ObEvent(type, ob)

\* C34: after a bar, for every block formed before the bar that is not a
\* breaker, the bar's events hold its boundary cross exactly when the bar
\* opened within [bottom, top] and closed beyond the zone in its direction:
\* close > top and close > open for a bullish block, close < bottom and
\* close < open for a bearish one.
C34_CrossIffOpenInZone ==
    /\ \A k \in 1..Len(obv.bullish_ob) :
          LET ob == obv.bullish_ob[k]
          IN (~ob.breaker /\ ob.loc < obv.i) =>
                (Emitted("bullish_boundary_crossed", ob)
                   <=> /\ obv.c.open >= ob.bottom /\ obv.c.open <= ob.top
                       /\ obv.c.close > ob.top
                       /\ obv.c.close > obv.c.open)
    /\ \A k \in 1..Len(obv.bearish_ob) :
          LET ob == obv.bearish_ob[k]
          IN (~ob.breaker /\ ob.loc < obv.i) =>
                (Emitted("bearish_boundary_crossed", ob)
                   <=> /\ obv.c.open >= ob.bottom /\ obv.c.open <= ob.top
                       /\ obv.c.close < ob.bottom
                       /\ obv.c.close < obv.c.open)

BlockAt(obs, loc) == CHOOSE k \in 1..Len(obs) : obs[k].loc = loc

StaysBroken(old, new) ==
    \A k \in 1..Len(old) :
        old[k].breaker =>
            /\ \E j \in 1..Len(new) : new[j].loc = old[k].loc
            /\ new[BlockAt(new, old[k].loc)].breaker
            /\ new[BlockAt(new, old[k].loc)].break_loc = old[k].break_loc

\* C35: a block that is a breaker stays one with the break_loc it has, on
\* every later bar, and no block has two *_breaker_created events in the
\* window.
C35_BreakerIsForever ==
    [][ /\ StaysBroken(obv.bullish_ob, obv'.bullish_ob)
        /\ StaysBroken(obv.bearish_ob, obv'.bearish_ob)
        /\ \A a \in 1..Len(obv'.created) : \A b \in 1..Len(obv'.created) :
              obv'.created[a] = obv'.created[b] => a = b
      ]_vars

\* C35 witness: a bullish block broken on an earlier bar, and the last bar
\* closed below its bottom again.
C35_Witness ==
    \E k \in 1..Len(obv.bullish_ob) :
        /\ obv.bullish_ob[k].breaker
        /\ obv.bullish_ob[k].break_loc < obv.i
        /\ Min(obv.c.close, obv.c.open) < obv.bullish_ob[k].bottom

\* ============================== support and resistance lines
\* compute_support_resistance_lines (support_resistance.py) on a profile
\* built one level at a time, prices descending.  Indices are 0-based as in
\* the code.  A smoothed volume is kept as its numerator over the sum of the
\* triangular weights, a width as the pair <<numerator, denominator>>.
MaxProfile == 5
Vicinity == 1
SmoothingWindow == 2
MaxWidth == 10
WidthMultiplier == 1
EpsInverse == 1000000
ProfileVols == 0..2

Abs(x) == IF x < 0 THEN 0 - x ELSE x
OddWindow(window_size) ==
    Max(3, IF window_size % 2 = 1 THEN window_size ELSE window_size + 1)
Weight(w, j) == (w \div 2) + 1 - Abs(j - (w \div 2))

RECURSIVE SumWeights(_, _)
SumWeights(w, j) == IF j >= w THEN 0 ELSE Weight(w, j) + SumWeights(w, j + 1)

RECURSIVE Weighted(_, _, _, _)
\* `for j, wj in enumerate(weights)` at position i, the index clamped
Weighted(values, w, i, j) ==
    IF j >= w THEN 0
    ELSE LET idx == Max(0, Min(Len(values) - 1, i + j - (w \div 2)))
         IN values[idx + 1] * Weight(w, j) + Weighted(values, w, i, j + 1)

\* smooth_triangular, each value times the sum of the weights
smooth_triangular(values, window_size) ==
    [k \in 1..Len(values) |-> Weighted(values, OddWindow(window_size), k - 1, 0)]

\* `is_min`: smoothed[i] is below every other value within the vicinity
IsMin(smoothed, i, vicinity) ==
    \A j \in (i - vicinity)..(i + vicinity) : j # i => smoothed[j + 1] > smoothed[i + 1]

\* `for i in range(vicinity, n - vicinity)`
MinimaIndices(smoothed, vicinity) ==
    { i \in vicinity..(Len(smoothed) - vicinity - 1) : IsMin(smoothed, i, vicinity) }

RECURSIVE SumSmoothed(_, _, _)
\* sum(smoothed[i] for i in range(start, end))
SumSmoothed(smoothed, start, end) ==
    IF start >= end THEN 0
    ELSE smoothed[start + 1] + SumSmoothed(smoothed, start + 1, end)

\* The width left as computed.
Unclamped(raw_width, max_width) == raw_width

\* max(1.0, min(raw_width, max_width))
line_width(raw_width, max_width) ==
    LET capped == IF raw_width[1] <= max_width * raw_width[2] THEN raw_width
                  ELSE <<max_width, 1>>
    IN IF capped[1] > capped[2] THEN capped ELSE <<1, 1>>

\* The body of `for k in minima_indices` up to raw_width; minima_vol is
\* max(smoothed[k], 1e-10), the floor scaled to 1 / EpsInverse.
RawWidth(smoothed, minima, k, total) ==
    LET n == Len(smoothed)
        before == { q \in minima : q < k }
        after == { q \in minima : q > k }
        left_start == IF before = {} THEN 0 ELSE SetMax(before) + 1
        right_end == IF after = {} THEN n - 1 ELSE SetMin(after) - 1
        sum == SumSmoothed(smoothed, left_start, k) + SumSmoothed(smoothed, k + 1, right_end + 1)
        size == (k - left_start) + (right_end - k)
    IN IF size = 0 THEN <<0, 1>>
       ELSE IF smoothed[k + 1] * EpsInverse >= total
            THEN <<sum * WidthMultiplier, size * smoothed[k + 1]>>
            ELSE <<sum * EpsInverse * WidthMultiplier, size * total>>

SrLine(price, width) == [type |-> "horizontalLine", price |-> price, width |-> width]

RECURSIVE LinesFrom(_, _, _, _, _)
LinesFrom(profile, smoothed, minima, total, k) ==
    IF k >= Len(profile) THEN << >>
    ELSE (IF k \in minima
          THEN << SrLine(profile[k + 1].price,
                         line_width(RawWidth(smoothed, minima, k, total), MaxWidth)) >>
          ELSE << >>)
         \o LinesFrom(profile, smoothed, minima, total, k + 1)

RECURSIVE Ascending(_, _, _)
Ascending(S, k, n) ==
    IF k >= n THEN << >>
    ELSE (IF k \in S THEN <<k>> ELSE << >>) \o Ascending(S, k + 1, n)

compute_support_resistance_lines(profile, vicinity, smoothing_window) ==
    LET n == Len(profile)
        vols == [k \in 1..n |-> profile[k].vol]
        smoothed == smooth_triangular(vols, smoothing_window)
        total == SumWeights(OddWindow(smoothing_window), 0)
        minima == MinimaIndices(smoothed, vicinity)
    IN IF n < 2 * vicinity + 1
       THEN [minima_indices |-> << >>, lines |-> << >>]
       ELSE [minima_indices |-> Ascending(minima, 0, n),
             lines |-> LinesFrom(profile, smoothed, minima, total, 0)]

\* One more level of the volume profile, below the levels so far.
SrAddLevel(vol) ==
    /\ ~srv.called
    /\ Len(srv.profile) < MaxProfile
    /\ srv' = [srv EXCEPT !.profile =
                  Append(@, [price |-> MaxProfile - Len(srv.profile), vol |-> vol])]
    /\ UNCHANGED <<hubVars, schedVars, journalVars, saveVars, stratVars, simVars, payVars, lateButLines>>

\* `sr_lines = compute_support_resistance_lines(vp["profile"])`
SrCompute ==
    /\ ~srv.called
    /\ LET out == compute_support_resistance_lines(srv.profile, Vicinity, SmoothingWindow)
       IN srv' = [srv EXCEPT !.called = TRUE,
                             !.minima_indices = out.minima_indices,
                             !.lines = out.lines]
    /\ UNCHANGED <<hubVars, schedVars, journalVars, saveVars, stratVars, simVars, payVars, lateButLines>>

NextLines ==
    \/ \E vol \in ProfileVols : SrAddLevel(vol)
    \/ SrCompute

SpecLines == Init /\ [][NextLines]_vars

WidthsInRange ==
    \A k \in 1..Len(srv.lines) :
        /\ srv.lines[k].width[1] >= srv.lines[k].width[2]
        /\ srv.lines[k].width[1] <= MaxWidth * srv.lines[k].width[2]

\* C33 as stated: every width is in [1.0, max_width] and every minimum's
\* index is strictly between vicinity and |P| - vicinity.
C33_IndicesStrictlyInside ==
    /\ WidthsInRange
    /\ \A k \in 1..Len(srv.minima_indices) :
          /\ srv.minima_indices[k] > Vicinity
          /\ srv.minima_indices[k] < Len(srv.profile) - Vicinity

\* C33 amended: every width is in [1.0, max_width], there is one line per
\* minimum, and every minimum's index i has vicinity <= i < |P| - vicinity.
C33_IndicesInside ==
    /\ WidthsInRange
    /\ Len(srv.lines) = Len(srv.minima_indices)
    /\ \A k \in 1..Len(srv.minima_indices) :
          /\ srv.minima_indices[k] >= Vicinity
          /\ srv.minima_indices[k] < Len(srv.profile) - Vicinity

\* C33 witness: a minimum at index vicinity whose line has a width that was
\* not clamped.
C33_Witness ==
    /\ srv.called
    /\ \E k \in 1..Len(srv.lines) :
          /\ srv.minima_indices[k] = Vicinity
          /\ srv.lines[k].width[1] > srv.lines[k].width[2]
          /\ srv.lines[k].width[1] < MaxWidth * srv.lines[k].width[2]

====
